---------------------------- MODULE Spec2Model ----------------------------
(***************************************************************************)
(* The campus assistant of college-counselor-bot: the knowledge base and   *)
(* its load, the search pipeline (searchLocalKB), the session, and the     *)
(* /chat handler with its next-best handoff.                               *)
(*                                                                         *)
(* A text is a string: Len, SubSeq and \o work on its characters.          *)
(***************************************************************************)
EXTENDS Integers, Sequences, FiniteSets, TLC

(***************************************************************************)
(* Characters and strings                                                  *)
(***************************************************************************)
Lowers == "abcdefghijklmnopqrstuvwxyz"

Uppers == "ABCDEFGHIJKLMNOPQRSTUVWXYZ"

LowerSet == {SubSeq(Lowers, i, i) : i \in 1..26}

UpperSet == {SubSeq(Uppers, i, i) : i \in 1..26}

DigitSet == {"0", "1", "2", "3", "4", "5", "6", "7", "8", "9"}

\* \s and \w
SpaceSet == {" "}

WordSet == LowerSet \cup UpperSet \cup DigitSet \cup {"_"}

Range(s) == {s[i] : i \in DOMAIN s}

Min(S) == CHOOSE x \in S : \A y \in S : x <= y

\* s[i], or "" outside the string
At(s, i) == IF i >= 1 /\ i <= Len(s) THEN SubSeq(s, i, i) ELSE ""

\* s.slice(i - 1)
From(s, i) == SubSeq(s, i, Len(s))

\* s.substr(i - 1, n)
Part(s, i, n) == SubSeq(s, i, IF i + n - 1 > Len(s) THEN Len(s) ELSE i + n - 1)

\* each letter of one alphabet with the letter at its place in the other
Letters(from, to) ==
    [c \in {At(from, i) : i \in 1..26} |-> At(to, CHOOSE i \in 1..26 : At(from, i) = c)]

ToLower == Letters(Uppers, Lowers)

ToUpper == Letters(Lowers, Uppers)

Swap(c, tab) == IF c \in DOMAIN tab THEN tab[c] ELSE c

RECURSIVE Convert(_, _, _)
\* s from its k-th character on, each letter of tab replaced
Convert(s, k, tab) ==
    IF k > Len(s) THEN "" ELSE Swap(At(s, k), tab) \o Convert(s, k + 1, tab)

\* String.prototype.toLowerCase / toUpperCase
toLowerCase(s) == Convert(s, 1, ToLower)

toUpperCase(s) == Convert(s, 1, ToUpper)

\* String.prototype.includes / startsWith
includes(s, w) == \E k \in 1..(Len(s) - Len(w) + 1) : SubSeq(s, k, k + Len(w) - 1) = w

startsWith(s, w) == Len(w) <= Len(s) /\ SubSeq(s, 1, Len(w)) = w

RECURSIVE TrimLeft(_)
TrimLeft(s) == IF At(s, 1) \in SpaceSet THEN TrimLeft(From(s, 2)) ELSE s

RECURSIVE TrimRight(_)
TrimRight(s) ==
    IF At(s, Len(s)) \in SpaceSet THEN TrimRight(SubSeq(s, 1, Len(s) - 1)) ELSE s

\* String.prototype.trim
trim(s) == TrimRight(TrimLeft(s))

\* c is a separator: in seps, or outside it when inside is FALSE
IsSep(c, seps, inside) == (c \in seps) = inside

RECURSIVE Split(_, _, _, _)
\* s.split(/[seps]+/): the pieces between the runs of separators, cur
\* being the piece read so far
Split(s, cur, seps, inside) ==
    IF s = "" THEN <<cur>>
    ELSE IF ~IsSep(At(s, 1), seps, inside)
    THEN Split(From(s, 2), cur \o At(s, 1), seps, inside)
    ELSE IF IsSep(At(s, 2), seps, inside) THEN Split(From(s, 2), cur, seps, inside)
    ELSE <<cur>> \o Split(From(s, 2), "", seps, inside)

\* s.split(/\s+/)
SplitSpaces(s) == Split(s, "", SpaceSet, TRUE)

\* s.split(/[^keep]+/).filter(Boolean)
Tokens(s, keep) == SelectSeq(Split(s, "", keep, FALSE), LAMBDA p : p # "")

\* words, lines 41-48
words(s) == Tokens(toLowerCase(s), LowerSet \cup DigitSet)

RECURSIVE Join(_, _)
\* Array.prototype.join
Join(ss, sep) ==
    IF ss = <<>> THEN ""
    ELSE IF Len(ss) = 1 THEN ss[1]
    ELSE ss[1] \o sep \o Join(Tail(ss), sep)

\* s.replace(/[seps]+/g, " ")
Collapse(s, seps, inside) == Join(Split(s, "", seps, inside), " ")

\* \b before the character at k
Boundary(s, k) == (At(s, k - 1) \in WordSet) # (At(s, k) \in WordSet)

\* The regular expression  a\s*b  (gap 0) or  a\s+b  (gap 1) matches in
\* s, with \b in front when bStart and \b behind when bEnd; b may be "".
Match(s, a, b, gap, bStart, bEnd) ==
    \E k \in 1..(Len(s) - Len(a) + 1) :
        /\ SubSeq(s, k, k + Len(a) - 1) = a
        /\ bStart => Boundary(s, k)
        /\ \E g \in gap..(IF b = "" THEN 0 ELSE Len(s)) :
              /\ \A i \in 0..(g - 1) : At(s, k + Len(a) + i) \in SpaceSet
              /\ Part(s, k + Len(a) + g, Len(b)) = b
              /\ bEnd => Boundary(s, k + Len(a) + g + Len(b))

\* \b(w1|w2|...)\b
MatchWord(s, ws) == \E w \in ws : Match(s, w, "", 0, TRUE, TRUE)

(***************************************************************************)
(* Records.  A JavaScript object is a function from its own property       *)
(* names; a property the object lacks is outside the DOMAIN.  null and     *)
(* the empty string are both "", an absent record is <<>>.                 *)
(***************************************************************************)
Has(o, f) == f \in DOMAIN o

\* o.f || dflt  for a text property
TextOr(o, f, dflt) == IF Has(o, f) /\ o[f] # "" THEN o[f] ELSE dflt

\* Array.isArray(o.f) ? o.f : []
ArrayOr(o, f) == IF Has(o, f) THEN o[f] ELSE <<>>

\* `${o.f}` in a template literal
Tmpl(o, f) == IF Has(o, f) THEN o[f] ELSE "undefined"

RECURSIVE UniqSeq(_, _)
\* [...new Set(s)]: the first occurrence of every element, in order
UniqSeq(s, seen) ==
    IF s = <<>> THEN <<>>
    ELSE IF Head(s) \in seen THEN UniqSeq(Tail(s), seen)
    ELSE <<Head(s)>> \o UniqSeq(Tail(s), seen \cup {Head(s)})

\* list.slice(0, n)
Take(s, n) == SubSeq(s, 1, IF Len(s) < n THEN Len(s) ELSE n)

\* { ...base, ...p, courses: cs }
SpreadMerge(base, p, cs) ==
    [f \in (DOMAIN base) \cup (DOMAIN p) \cup {"courses"} |->
        IF f = "courses" THEN cs
        ELSE IF f \in DOMAIN p THEN p[f]
        ELSE base[f]]

(***************************************************************************)
(* The de-duplication of the professors at load, lines 137-160             *)
(***************************************************************************)
\* (p.name || "").toLowerCase().trim(), line 141
profKey(p) == trim(toLowerCase(TextOr(p, "name", "")))

\* byName.set(key, val) on a Map kept as a sequence of [key, val] in
\* insertion order: an existing key keeps its place
MapSet(m, k, v) ==
    IF \E i \in DOMAIN m : m[i].key = k
    THEN [i \in DOMAIN m |-> IF m[i].key = k THEN [key |-> k, val |-> v] ELSE m[i]]
    ELSE Append(m, [key |-> k, val |-> v])

\* the entry of key k, or <<>>
MapGet(m, k) == SelectSeq(m, LAMBDA e : e.key = k)

dedupStepMutLastWins(byName, p, key, old) ==
    IF key = "" THEN byName
    ELSE MapSet(byName, key, SpreadMerge(p, p, UniqSeq(ArrayOr(p, "courses"), {})))

\* One turn of the loop, lines 140-158: old is byName.get(key).
dedupStep(byName, p, key, old) ==
    IF key = "" THEN byName
    ELSE IF old = <<>>
    THEN MapSet(byName, key, SpreadMerge(p, p, UniqSeq(ArrayOr(p, "courses"), {})))
    ELSE MapSet(byName, key,
                SpreadMerge(old[1].val, p,
                            UniqSeq(ArrayOr(old[1].val, "courses") \o ArrayOr(p, "courses"),
                                    {})))

RECURSIVE dedupLoop(_, _)
dedupLoop(byName, ps) ==
    IF ps = <<>> THEN byName
    ELSE dedupLoop(dedupStep(byName, Head(ps), profKey(Head(ps)),
                             MapGet(byName, profKey(Head(ps)))),
                   Tail(ps))

\* Array.from(byName.values()), line 159
mapValues(byName) == [i \in DOMAIN byName |-> byName[i].val]

dedupProfessors(ps) == mapValues(dedupLoop(<<>>, ps))

(***************************************************************************)
(* Query analysis                                                          *)
(***************************************************************************)
\* canonCourse that trims before it replaces the separators
canonCourseMutTrimFirst(s) == Collapse(trim(toUpperCase(s)), SpaceSet \cup {"-"}, TRUE)

\* canonCourse, lines 276-278
canonCourse(s) == trim(Collapse(toUpperCase(s), SpaceSet \cup {"-"}, TRUE))

AllIn(s, S) == \A i \in 1..Len(s) : At(s, i) \in S

RECURSIVE runLen(_, _, _)
\* how many characters in a row, from the one at k on, are in S
runLen(t, k, S) == IF At(t, k) \in S THEN 1 + runLen(t, k + 1, S) ELSE 0

\* /\b([A-Z]{2,5})\s?(\d{1,3}[A-Z]?)\b/ at k: with \b at both ends the
\* match takes the whole run of n letters, sp spaces, the whole run of d
\* digits and l letters, or there is none.
codeShape(t, k, n, sp, d) ==
    [n |-> n, sp |-> sp, d |-> d,
     l |-> IF At(t, k + n + sp + d) \in UpperSet THEN 1 ELSE 0]

codeAfter(t, k, n, sp) == codeShape(t, k, n, sp, runLen(t, k + n + sp, DigitSet))

codeLetters(t, k, n) == codeAfter(t, k, n, IF At(t, k + n) \in SpaceSet THEN 1 ELSE 0)

codeFits(t, k, m) ==
    /\ Boundary(t, k)
    /\ m.n \in 2..5 /\ m.d \in 1..3
    /\ Boundary(t, k + m.n + m.sp + m.d + m.l)

\* `${m[1]} ${m[2]}`.trim(), line 246, and the place after the match
codeOf(t, k, m) ==
    [code |-> trim(Part(t, k, m.n) \o " " \o Part(t, k + m.n + m.sp, m.d + m.l)),
     next |-> k + m.n + m.sp + m.d + m.l]

RECURSIVE scanCourseCodes(_, _)
\* the loop of lines 245-247, from the character at k on
scanFrom(t, k, m) ==
    IF codeFits(t, k, m)
    THEN <<codeOf(t, k, m).code>> \o scanCourseCodes(t, codeOf(t, k, m).next)
    ELSE scanCourseCodes(t, k + 1)

scanCourseCodes(t, k) ==
    IF k > Len(t) THEN <<>>
    ELSE IF At(t, k) \in UpperSet THEN scanFrom(t, k, codeLetters(t, k, runLen(t, k, UpperSet)))
    ELSE scanCourseCodes(t, k + 1)

\* extractCourseCodes, lines 239-249
extractCourseCodes(text) == UniqSeq(scanCourseCodes(toUpperCase(text), 1), {})

\* extractDeptHint, lines 252-259, of the normalized text t
deptOf(t) ==
    IF includes(t, "math") THEN "mathematics"
    ELSE IF includes(t, "cs") \/ includes(t, "computer science") \/ includes(t, "cis")
    THEN "computer science"
    ELSE IF includes(t, "physics") THEN "physics"
    ELSE IF includes(t, "chem") THEN "chemistry"
    ELSE ""

extractDeptHint(text) == deptOf(toLowerCase(text))

\* /\b(calculus\s*N|calc\s*N|math\s*C)\b/
aliasMatch(s, N, C) ==
    \/ Match(s, "calculus", N, 0, TRUE, TRUE)
    \/ Match(s, "calc", N, 0, TRUE, TRUE)
    \/ Match(s, "math", C, 0, TRUE, TRUE)

\* resolveCourseAlias, lines 291-297, of the lower-cased text s
aliasOf(s) ==
    IF aliasMatch(s, "i", "1a") THEN "MATH 1A"
    ELSE IF aliasMatch(s, "ii", "1b") THEN "MATH 1B"
    ELSE IF aliasMatch(s, "iii", "1c") THEN "MATH 1C"
    ELSE ""

resolveCourseAlias(text) == aliasOf(toLowerCase(text))

\* /(best|top|easiest)\s+(prof|professor)/, lines 341 and 648
RankPhrase(s) == \E w \in {"best", "top", "easiest"} : Match(s, w, "prof", 1, FALSE, FALSE)

\* /best\s+(prof|professor)/, lines 301 and 563
BestProfPhrase(s) == Match(s, "best", "prof", 1, FALSE, FALSE)

\* the tags of lines 305-309
rankTags(wantBest, wantSecond, wantEasiest, wantTeach) ==
    IF wantSecond \/ wantEasiest \/ wantTeach
    THEN (IF wantSecond THEN <<"second_best">> ELSE <<>>)
         \o (IF wantEasiest THEN <<"easiest">> ELSE <<>>)
         \o (IF wantTeach THEN <<"best_teaching">> ELSE <<>>)
    ELSE IF wantBest THEN <<"best_overall">> ELSE <<>>

rankIntentOf(wantBest, wantSecond, wantEasiest, wantTeach) ==
    [tags |-> rankTags(wantBest, wantSecond, wantEasiest, wantTeach),
     asked |-> wantBest \/ wantSecond \/ wantEasiest \/ wantTeach]

\* parseRankIntent, lines 299-311, of the lower-cased query q
rankIntent(q) ==
    rankIntentOf(BestProfPhrase(q) \/ MatchWord(q, {"top"}),
                 \E w \in {"second", "2nd"} : Match(q, w, "best", 1, FALSE, FALSE),
                 MatchWord(q, {"easiest"}),
                 \/ Match(q, "best", "teaching", 1, FALSE, FALSE)
                 \/ Match(q, "teaches", "best", 1, FALSE, FALSE)
                 \/ Match(q, "best", "teacher", 1, FALSE, FALSE))

parseRankIntent(query) == rankIntent(toLowerCase(query))

\* isMajorReqQuery, lines 92-98, of the lower-cased text q
majorReq(q) ==
    /\ \/ \E w \in {"science", "theory"} : Match(q, "data", w, 0, TRUE, TRUE)
       \/ MatchWord(q, {"ds"})
    /\ \/ MatchWord(q, {"uc", "ucla", "ucsd", "ucsb", "uci", "ucd", "ucsc", "ucr", "ucm",
                        "berkeley", "irvine", "davis", "riverside", "merced"})
       \/ \E w \in {"barbara", "cruz"} : Match(q, "santa", w, 0, TRUE, TRUE)
       \/ Match(q, "san", "diego", 0, TRUE, TRUE)
       \/ MatchWord(q, {"requirement", "requirements", "prereq", "prereqs", "prerequisite",
                        "prerequisites", "courses", "course list", "classes", "curriculum",
                        "plan"})

isMajorReqQuery(text) == majorReq(toLowerCase(text))

\* /\bA|B\b/: A after a word boundary, or B before one
MatchEither(q, A, B) == Match(q, A, "", 0, TRUE, FALSE) \/ Match(q, B, "", 0, FALSE, TRUE)

\* extractCampusHint, lines 78-90, of the lower-cased text q
campusOf(q) ==
    IF MatchEither(q, "ucsd", "san diego") THEN "uc san diego"
    ELSE IF MatchEither(q, "ucla", "los angeles") THEN "ucla"
    ELSE IF MatchEither(q, "ucsb", "santa barbara") THEN "uc santa barbara"
    ELSE IF MatchEither(q, "uci", "irvine") THEN "uc irvine"
    ELSE IF MatchEither(q, "ucd", "davis") THEN "uc davis"
    ELSE IF MatchEither(q, "ucsc", "santa cruz") THEN "uc santa cruz"
    ELSE IF MatchEither(q, "ucr", "riverside") THEN "uc riverside"
    ELSE IF MatchEither(q, "ucm", "merced") THEN "uc merced"
    ELSE IF MatchEither(q, "berkeley", "cal") THEN "uc berkeley"
    ELSE ""

extractCampusHint(text) == campusOf(toLowerCase(text))

\* the keyword overlap and the position bonus of lines 267-272
overlapScore(q, t, qWords) ==
    IF q = "" \/ t = "" THEN 0
    ELSE Cardinality({i \in DOMAIN qWords : includes(t, qWords[i])})
         + (IF startsWith(t, q) THEN 2 ELSE 0)

\* scoreItem, lines 261-274, of the normalized query q
scoreItem(q, text) == overlapScore(q, toLowerCase(text), Tokens(q, WordSet))

\* scoreItem with the words of q split once for all the items
scoreWords(q, qWords, text) == overlapScore(q, toLowerCase(text), qWords)

(***************************************************************************)
(* The state of the server                                                 *)
(***************************************************************************)
VARIABLES
    SCHOOL_DB,   \* the knowledge base, lines 127-160
    SESSION,     \* lastCourse, lastProfessor, rankCursor, lines 163-167
    EMB_INDEX,   \* the embedding index, line 170
    boot,        \* the phase of the start-up and the professors array of the data file
    req,         \* the /chat requests, one record per slot
    run          \* the handoff replies of the class_full requests in a row

vars == <<SCHOOL_DB, SESSION, EMB_INDEX, boot, req, run>>

(***************************************************************************)
(* Ranking lists                                                           *)
(***************************************************************************)
\* a.rank || 999, line 415
rankOr(e) == IF Has(e, "rank") /\ e.rank # 0 THEN e.rank ELSE 999

\* a.rank ?? 999, lines 842 and 909
rankNullish(e) == IF Has(e, "rank") THEN e.rank ELSE 999

RECURSIVE InsertKeyed(_, _)
InsertKeyed(sorted, x) ==
    IF sorted = <<>> THEN <<x>>
    ELSE IF x.k < Head(sorted).k THEN <<x>> \o sorted
    ELSE <<Head(sorted)>> \o InsertKeyed(Tail(sorted), x)

RECURSIVE SortKeyed(_)
SortKeyed(s) ==
    IF s = <<>> THEN <<>>
    ELSE InsertKeyed(SortKeyed(SubSeq(s, 1, Len(s) - 1)), s[Len(s)])

Unkey(s) == [i \in DOMAIN s |-> s[i].v]

\* Array.prototype.sort with the comparator key(a) - key(b): stable
SortBy(s, key(_)) == Unkey(SortKeyed([i \in DOMAIN s |-> [k |-> key(s[i]), v |-> s[i]]]))

\* SCHOOL_DB.rankings?.[code] || []
rankingsOf(db, code) ==
    IF Has(db, "rankings") /\ code \in DOMAIN db.rankings THEN db.rankings[code] ELSE <<>>

\* the sorted list of the ranking stage, lines 413-415
rankStageList(db, code) == SortBy(rankingsOf(db, code), rankOr)

\* the sorted list of the handoff, lines 840-842 and 908-909
handoffList(db, code) == SortBy(rankingsOf(db, code), rankNullish)

\* array.find(pred): <<>> or the first element in s
First(s) == IF s = <<>> THEN <<>> ELSE <<s[1]>>

\* (SCHOOL_DB.professors || []).find(p => normalize(p.name) === normalize(name))
findProf(db, name) ==
    First(SelectSeq(db.professors, LAMBDA p : toLowerCase(p.name) = toLowerCase(name)))

(***************************************************************************)
(* searchLocalKB, lines 351-754, up to its first await                     *)
(***************************************************************************)
\* VALID_CODES, lines 281-289
VALID_CODES(db) ==
    {canonCourse(db.courses[i].code) : i \in DOMAIN db.courses}
        \cup {canonCourse(c) : c \in DOMAIN db.rankings}

\* lines 355-367: direct are the codes read in the query, alias the
\* resolved alias
codesOrAlias(direct, alias, valid) ==
    IF direct = <<>> THEN (IF alias # "" THEN <<canonCourse(alias)>> ELSE <<>>)
    ELSE IF (\A i \in DOMAIN direct : direct[i] \notin valid) /\ alias # ""
    THEN <<canonCourse(alias)>>
    ELSE direct

canonAll(cs) == [i \in DOMAIN cs |-> canonCourse(cs[i])]

\* courseCodesInQuery, lines 353-367
courseCodesInQuery(db, query) ==
    codesOrAlias(canonAll(extractCourseCodes(query)), resolveCourseAlias(query),
                 VALID_CODES(db))

\* mentioned, lines 375-376
mentionedNames(db, qNorm) ==
    SelectSeq([i \in DOMAIN db.professors |-> db.professors[i].name],
              LAMBDA n : includes(qNorm, toLowerCase(n)))

\* exactMatches, lines 378-380
exactMatches(db, mentioned) ==
    SelectSeq(db.professors,
              LAMBDA p : \E i \in DOMAIN mentioned :
                             toLowerCase(p.name) = toLowerCase(mentioned[i]))

\* the last word of a professor's name, lines 395-396
lastWord(parts) == parts[Len(parts)]

lastNameOf(p) == lastWord(SplitSpaces(toLowerCase(p.name)))

\* profMatches, lines 393-398
profMatches(db, qWords) ==
    SelectSeq(db.professors, LAMBDA p : lastNameOf(p) \in Range(qWords))

\* profs.map(p => ({ type: "professor", score, data: p })), lines 383 and 401
profHits(ps, score) ==
    [i \in DOMAIN ps |-> [type |-> "professor", score |-> score, data |-> ps[i]]]

\* merged, lines 435-443 and 936-944: f is the professor found by name
mergedOf(name, f, code) ==
    [name |-> name,
     department |-> IF f # <<>> THEN TextOr(f[1], "department", "(dept)") ELSE "(dept)",
     courses |-> IF f # <<>> /\ Has(f[1], "courses") THEN f[1].courses ELSE <<code>>]

mergedProf(db, r, code) == mergedOf(r.name, findProf(db, r.name), code)

\* one ranking hit, lines 445-449; 0 stands for a null rank
rankingHit(db, r, code) ==
    [type |-> "ranking",
     score |-> 100 - (IF rankOr(r) = 999 THEN 99 ELSE r.rank) * 2,
     data |-> [course |-> code, tags |-> ArrayOr(r, "tags"),
               rank |-> IF rankOr(r) = 999 THEN 0 ELSE r.rank,
               prof |-> mergedProf(db, r, code)]]

\* matches, lines 417-419
tagMatches(list, wantTags) ==
    IF wantTags # <<>>
    THEN SelectSeq(list, LAMBDA item : Range(ArrayOr(item, "tags")) \cap Range(wantTags) # {})
    ELSE list

\* chosen, line 421
chosenOf(matches, list) == Take(IF matches # <<>> THEN matches ELSE list, 3)

rankChosen(db, code, wantTags) ==
    chosenOf(tagMatches(rankStageList(db, code), wantTags), rankStageList(db, code))

\* (SCHOOL_DB.courses || []).find(c => canonCourse(c.code) === code), line 452
findCourse(db, code) == First(SelectSeq(db.courses, LAMBDA c : canonCourse(c.code) = code))

\* the course hit of line 453
courseHitOf(courseItem) ==
    [i \in DOMAIN courseItem |-> [type |-> "course", score |-> 0, data |-> courseItem[i]]]

courseHits(db, code) == courseHitOf(findCourse(db, code))

rankingHits(db, chosen, code) == [i \in DOMAIN chosen |-> rankingHit(db, chosen[i], code)]

\* rankingStage that remembers the course only when it returns
rankingStageMutForget(db, sess, code, chosen) ==
    IF chosen # <<>>
    THEN [ret |-> TRUE, stage |-> "ranking",
          hits |-> Take(rankingHits(db, chosen, code) \o courseHits(db, code), 3),
          sess |-> [lastCourse |-> code,
                    lastProfessor |-> IF TextOr(chosen[1], "name", "") # ""
                                      THEN chosen[1].name ELSE sess.lastProfessor,
                    rankCursor |-> (code :> 0) @@ sess.rankCursor]]
    ELSE [ret |-> FALSE, stage |-> "ranking", hits |-> <<>>, sess |-> sess]

\* The ranking stage, lines 411-461: the session writes of lines 425-429
\* and the return of line 456.
rankingStage(db, sess, code, chosen) ==
    IF chosen # <<>>
    THEN [ret |-> TRUE, stage |-> "ranking",
          hits |-> Take(rankingHits(db, chosen, code) \o courseHits(db, code), 3),
          sess |-> [lastCourse |-> code,
                    lastProfessor |-> IF TextOr(chosen[1], "name", "") # ""
                                      THEN chosen[1].name ELSE sess.lastProfessor,
                    rankCursor |-> (code :> 0) @@ sess.rankCursor]]
    ELSE [ret |-> FALSE, stage |-> "ranking", hits |-> <<>>,
          sess |-> [sess EXCEPT !.lastCourse = code,
                                !.rankCursor = (code :> 0) @@ sess.rankCursor]]

\* The stages that run before the first await, lines 374-461: whether the
\* function returned (ret), at which stage, with which hits, and the
\* session it leaves.
prefixStages(db, sess, codes, mentioned, exact, byLast, pr) ==
    IF mentioned # <<>> /\ exact # <<>>
    THEN [ret |-> TRUE, stage |-> "fullName", hits |-> profHits(exact, 100),
          sess |-> [sess EXCEPT !.lastProfessor = exact[1].name]]
    ELSE IF mentioned = <<>> /\ byLast # <<>>
    THEN [ret |-> TRUE, stage |-> "lastName", hits |-> profHits(byLast, 90),
          sess |-> [sess EXCEPT !.lastProfessor = byLast[1].name]]
    ELSE IF pr.asked /\ codes # <<>>
    THEN rankingStage(db, sess, codes[1], rankChosen(db, codes[1], pr.tags))
    ELSE [ret |-> FALSE, stage |-> "none", hits |-> <<>>, sess |-> sess]

prefixOf(db, sess, query, qNorm, mentioned) ==
    prefixStages(db, sess, courseCodesInQuery(db, query), mentioned,
                 exactMatches(db, mentioned), profMatches(db, SplitSpaces(qNorm)),
                 rankIntent(qNorm))

prefixNorm(db, sess, query, qNorm) ==
    prefixOf(db, sess, query, qNorm, mentionedNames(db, qNorm))

searchPrefix(db, sess, query) == prefixNorm(db, sess, query, toLowerCase(query))

(***************************************************************************)
(* searchLocalKB from line 488 on: keyword scoring, the hard filter, the   *)
(* major stage and the entry of the web fallback                           *)
(***************************************************************************)
\* (o.f || []).join(" ")
JoinOr(o, f) == Join(ArrayOr(o, f), " ")

\* the blobs of lines 503, 510, 541 and 556
deadlineBlob(d) ==
    Join(<<Tmpl(d, "term"), Tmpl(d, "category"), Tmpl(d, "description"), Tmpl(d, "date"),
           TextOr(d, "time", ""), TextOr(d, "notes", ""), JoinOr(d, "keywords")>>, " ")

professorBlob(p) ==
    Join(<<Tmpl(p, "name"), Tmpl(p, "department"), JoinOr(p, "courses"), Tmpl(p, "rating"),
           TextOr(p, "reviews", "")>>, " ")

courseBlob(c) ==
    Join(<<Tmpl(c, "code"), Tmpl(c, "title"), Tmpl(c, "department"),
           TextOr(c, "description", ""), TextOr(c, "notes", "")>>, " ")

faqBlob(f) == Join(<<Tmpl(f, "q"), Tmpl(f, "a"), JoinOr(f, "keywords")>>, " ")

\* s.replace(/\s+/, " "): the first run of spaces only; pieces is
\* s.split(/\s+/)
firstRun(s, pieces) ==
    IF Len(pieces) < 2 THEN s
    ELSE pieces[1] \o " " \o TrimLeft(From(s, Len(pieces[1]) + 1))

\* c.toUpperCase().replace(/\s+/, " ").trim(), lines 544, 546, 578, 580
looseCode(c) == trim(firstRun(toUpperCase(c), SplitSpaces(toUpperCase(c))))

\* how many of the query's codes the professor teaches, lines 517-520
taughtCount(p, courseCodes) ==
    Cardinality({i \in DOMAIN courseCodes :
                    canonCourse(courseCodes[i])
                        \in {canonCourse(c) : c \in Range(ArrayOr(p, "courses"))}})

\* the professor scorer, lines 512-534
professorBonus(p, courseCodes, dept) ==
    8 * taughtCount(p, courseCodes)
    + (IF dept # "" /\ toLowerCase(TextOr(p, "department", "")) = dept THEN 3 ELSE 0)
    - (IF courseCodes # <<>> /\ taughtCount(p, courseCodes) = 0 THEN 4 ELSE 0)

\* the course scorer, lines 542-549
courseBonus(c, courseCodes) ==
    6 * Cardinality({i \in DOMAIN courseCodes :
                        looseCode(TextOr(c, "code", "")) = looseCode(courseCodes[i])})

\* pushHits, lines 488-497
pushHits(q, qWords, arr, type, blob(_), extra(_)) ==
    SelectSeq([i \in DOMAIN arr |->
                  [type |-> type,
                   score |-> scoreWords(q, qWords, blob(arr[i])) + extra(arr[i]),
                   data |-> arr[i]]],
              LAMBDA h : h.score > 0)

\* the hits of lines 499-558, in the order they are pushed
keywordPushes(db, q, qWords, courseCodes, dept) ==
    pushHits(q, qWords, db.deadlines, "deadline", deadlineBlob, LAMBDA d : 0)
    \o pushHits(q, qWords, db.professors, "professor", professorBlob,
                LAMBDA p : professorBonus(p, courseCodes, dept))
    \o pushHits(q, qWords, db.courses, "course", courseBlob,
                LAMBDA c : courseBonus(c, courseCodes))
    \o pushHits(q, qWords, db.faq, "faq", faqBlob, LAMBDA f : 0)

keywordHits(db, q, courseCodes, dept) ==
    keywordPushes(db, q, Tokens(q, WordSet), courseCodes, dept)

\* askedBestProfForCourse, lines 562-563
askedBestProfForCourse(query, courseCodes) ==
    BestProfPhrase(toLowerCase(query)) /\ courseCodes # <<>>

\* hits.sort(...), lines 565-571: professors first when first holds, then
\* by descending score
sortHits(hits, first) ==
    SortBy(hits, LAMBDA h : (IF first /\ h.type # "professor" THEN 1000000 ELSE 0) - h.score)

\* profThatTeach, lines 577-582
profThatTeach(hits, courseCodes) ==
    SelectSeq(hits, LAMBDA h :
        /\ h.type = "professor"
        /\ \E i \in DOMAIN courseCodes :
              looseCode(courseCodes[i])
                  \in {looseCode(c) : c \in Range(ArrayOr(h.data, "courses"))})

\* out, lines 586-589
hardFilterOut(profs, hits) ==
    Take(Take(profs, 2) \o First(SelectSeq(hits, LAMBDA h : h.type = "course")), 3)

\* the hard filter, lines 576-592: <<>> when it does not return
hardFilter(asked, hits, courseCodes) ==
    IF asked /\ profThatTeach(hits, courseCodes) # <<>>
    THEN hardFilterOut(profThatTeach(hits, courseCodes), hits)
    ELSE <<>>

\* blob, lines 620-625
majorBlob(m) ==
    toLowerCase(Join(<<Tmpl(m, "program"), JoinOr(m, "aliases"), JoinOr(m, "lower_division"),
                       JoinOr(m, "upper_division")>>, " "))

\* The score of one major, lines 601-635, in tenths.  Of the synonyms of
\* lines 605-614 only "ucla" is a value extractCampusHint returns.
majorScore(campus, blob, campusHint, qWords) ==
    (IF campusHint # "" /\ includes(campus, campusHint) THEN 100 ELSE 0)
    + (IF campusHint = "ucla" /\ campus = "ucla" THEN 100 ELSE 0)
    + (IF Match(blob, "data", "science", 0, TRUE, TRUE) THEN 40 ELSE 0)
    + (IF Match(blob, "data", "theory", 0, TRUE, TRUE) THEN 20 ELSE 0)
    + 3 * Cardinality({i \in DOMAIN qWords : includes(blob, qWords[i])})

\* majorHits before the sort, lines 600-636
majorScored(majors, campusHint, qWords) ==
    SelectSeq([i \in DOMAIN majors |->
                  [type |-> "major",
                   score |-> majorScore(toLowerCase(majors[i].campus), majorBlob(majors[i]),
                                        campusHint, qWords),
                   data |-> majors[i]]],
              LAMBDA h : h.score > 0)

\* the major stage, lines 595-642: <<>> when it does not return
majorHits(db, query) ==
    IF isMajorReqQuery(query)
    THEN Take(SortBy(majorScored(ArrayOr(db, "majors"), extractCampusHint(query),
                                 Tokens(toLowerCase(query), WordSet)),
                     LAMBDA h : 0 - h.score), 3)
    ELSE <<>>

\* needProfButEmpty and the test of line 648
entersWeb(query, hits) ==
    /\ \A i \in DOMAIN hits : hits[i].type \notin {"ranking", "professor"}
    /\ RankPhrase(toLowerCase(query))

\* From the hard filter to the web fallback, on the sorted keyword hits:
\* the function returns (ret) or awaits the first web search.
laterStages(query, hits, hard, majors) ==
    IF hard # <<>> THEN [ret |-> TRUE, stage |-> "hardFilter", hits |-> hard]
    ELSE IF majors # <<>> THEN [ret |-> TRUE, stage |-> "major", hits |-> majors]
    ELSE IF entersWeb(query, hits) THEN [ret |-> FALSE, stage |-> "web", hits |-> hits]
    ELSE [ret |-> TRUE, stage |-> "keyword", hits |-> Take(hits, 3)]

sortedStages(db, query, courseCodes, hits) ==
    laterStages(query, hits,
                hardFilter(askedBestProfForCourse(query, courseCodes), hits, courseCodes),
                majorHits(db, query))

keywordStages(db, query, courseCodes) ==
    sortedStages(db, query, courseCodes,
                 sortHits(keywordHits(db, toLowerCase(query), courseCodes,
                                      extractDeptHint(query)),
                          askedBestProfForCourse(query, courseCodes)))

searchAfterSemantic(db, query) == keywordStages(db, query, courseCodesInQuery(db, query))

(***************************************************************************)
(* The semantic stage, lines 463-486.  An embedding is a vector of two     *)
(* non-negative integers; cosines are compared exactly, by cross           *)
(* multiplication, instead of in floating point.                           *)
(***************************************************************************)
dot(a, b) == a[1] * b[1] + a[2] * b[2]

\* MIN_SIM = 0.78 (line 470), in hundredths
MIN_SIM == 78

\* cosine(q, e) >= m / 100
cosineAtLeast(q, e, m) == 10000 * dot(q, e) * dot(q, e) >= m * m * dot(q, q) * dot(e, e)

\* cosine(q, a) > cosine(q, b)
cosineGreater(q, a, b) == dot(q, a) * dot(q, a) * dot(b, b) > dot(q, b) * dot(q, b) * dot(a, a)

\* Math.round(100 * cosine(q, e))
simScore(q, e) ==
    CHOOSE r \in 0..100 :
        /\ (2 * r - 1) * (2 * r - 1) * dot(q, q) * dot(e, e) <= 40000 * dot(q, e) * dot(q, e)
        /\ 40000 * dot(q, e) * dot(q, e) < (2 * r + 1) * (2 * r + 1) * dot(q, q) * dot(e, e)

\* sims sorted by descending similarity, lines 467-468: the key of an item
\* is the number of items more similar than it
simsSorted(index, queryEmb) ==
    SortBy(index, LAMBDA it : Cardinality({j \in DOMAIN index :
                                              cosineGreater(queryEmb, index[j].emb, it.emb)}))

semanticTopMutLoose(index, queryEmb) ==
    Take(SelectSeq(simsSorted(index, queryEmb),
                   LAMBDA it : cosineAtLeast(queryEmb, it.emb, MIN_SIM - 20)), 3)

\* top, line 471
semanticTop(index, queryEmb) ==
    Take(SelectSeq(simsSorted(index, queryEmb),
                   LAMBDA it : cosineAtLeast(queryEmb, it.emb, MIN_SIM)), 3)

\* embHits, lines 475-479
embHits(top, queryEmb) ==
    [i \in DOMAIN top |->
        [type |-> top[i].type, score |-> simScore(queryEmb, top[i].emb),
         data |-> top[i].data]]

semanticHits(index, queryEmb) == embHits(semanticTop(index, queryEmb), queryEmb)

(***************************************************************************)
(* The web fallback, lines 644-751                                         *)
(***************************************************************************)
\* the [-] of lines 63 and 64, without the en dash
DashSet == {"-"}

\* The place of the "|" of  \|\s*Rate My Professors$  in the lower-cased
\* title l, or 0.
rmpBar(l) ==
    IF Len(l) >= 19 /\ From(l, Len(l) - 17) = "rate my professors"
       /\ At(TrimRight(SubSeq(l, 1, Len(l) - 18)), Len(TrimRight(SubSeq(l, 1, Len(l) - 18))))
              = "|"
    THEN Len(TrimRight(SubSeq(l, 1, Len(l) - 18)))
    ELSE 0

\* where " at " may stand in  ^(.+?)\s+at\s+(.+?)\s+\|\s+Rate My Professors$
atPlaces(l, bar) ==
    {i \in 3..(bar - 5) : /\ Part(l, i, 2) = "at"
                          /\ At(l, i - 1) \in SpaceSet /\ At(l, i + 2) \in SpaceSet
                          /\ At(l, bar - 1) \in SpaceSet /\ At(l, bar + 1) \in SpaceSet}

\* where the dash may stand after the character at h, with a character
\* between them, and before the one at e, with a character between them
dashPlaces(t, h, e) == {d \in (h + 2)..(e - 2) : At(t, d) \in DashSet}

\* the end of  ^Professor Ratings?:  in l, or 0
ratingsHead(l) ==
    IF startsWith(l, "professor ratings:") THEN 18
    ELSE IF startsWith(l, "professor rating:") THEN 17
    ELSE 0

\* { name: m[1].trim(), school: m[2].trim() }
parsedOf(name, school) == <<[name |-> trim(name), school |-> trim(school)]>>

\* the three patterns of lines 61-65 in turn: <<>> is null
parseTitle(t, bar, ats, head, dashes2, dashes3) ==
    IF t = "" THEN <<>>
    ELSE IF ats # {}
    THEN parsedOf(SubSeq(t, 1, Min(ats) - 1), SubSeq(t, Min(ats) + 2, bar - 1))
    ELSE IF head > 0 /\ dashes2 # {}
    THEN parsedOf(SubSeq(t, head + 1, Min(dashes2) - 1), From(t, Min(dashes2) + 1))
    ELSE IF dashes3 # {}
    THEN parsedOf(SubSeq(t, 1, Min(dashes3) - 1), SubSeq(t, Min(dashes3) + 1, bar - 1))
    ELSE <<>>

titleParts(t, l, bar, head) ==
    parseTitle(t, bar, atPlaces(l, bar), head,
               IF head > 0 THEN dashPlaces(t, head, Len(t) + 2) ELSE {},
               IF bar > 0 THEN dashPlaces(t, 0, bar) ELSE {})

titleLower(t, l) == titleParts(t, l, rmpBar(l), ratingsHead(l))

\* extractNameSchoolFromTitle, lines 59-71
extractNameSchoolFromTitle(title) == titleLower(title, toLowerCase(title))

\* normSchool, lines 51-57, for a text without underscore
normSchool(s) ==
    Join(SelectSeq(Tokens(toLowerCase(s), LowerSet \cup DigitSet),
                   LAMBDA w : w \notin {"community", "college", "university", "dept",
                                        "department", "at"}), " ")

sameSchool(A, B) == A # "" /\ B # "" /\ (includes(A, B) \/ includes(B, A))

\* looksLikeSameSchool, lines 73-76
looksLikeSameSchool(a, b) == sameSchool(normSchool(a), normSchool(b))

RECURSIVE lowerRun(_, _)
\* the last of the lower-case letters that follow the character at k
lowerRun(t, k) == IF At(t, k + 1) \in LowerSet THEN lowerRun(t, k + 1) ELSE k

\* the end of  [A-Z][a-z]+  at k, or 0
capEnd(t, k) ==
    IF At(t, k) \in UpperSet /\ At(t, k + 1) \in LowerSet THEN lowerRun(t, k) ELSE 0

RECURSIVE skipSpaces(_, _)
\* the first place from k on that holds no space
skipSpaces(t, k) == IF At(t, k) \in SpaceSet THEN skipSpaces(t, k + 1) ELSE k

RECURSIVE nameRunEnd(_, _)
\* the end of the longest  (?:\s+[A-Z][a-z]+)*  after the word ending at e
nameRunEnd(t, e) ==
    IF At(t, e + 1) \in SpaceSet /\ capEnd(t, skipSpaces(t, e + 1)) > 0
    THEN nameRunEnd(t, capEnd(t, skipSpaces(t, e + 1)))
    ELSE e

RECURSIVE nameLikeFrom(_, _)
\* the matches of nameLike (line 688) in a title, from the character at k
nameLikeFrom(t, k) ==
    IF k > Len(t) THEN <<>>
    ELSE IF capEnd(t, k) > 0 /\ nameRunEnd(t, capEnd(t, k)) > capEnd(t, k)
    THEN <<SubSeq(t, k, nameRunEnd(t, capEnd(t, k)))>>
            \o nameLikeFrom(t, nameRunEnd(t, capEnd(t, k)) + 1)
    ELSE nameLikeFrom(t, k + 1)

RECURSIVE Concat(_)
Concat(ss) == IF ss = <<>> THEN <<>> ELSE Head(ss) \o Concat(Tail(ss))

\* the candidate of one ratings-site result, lines 681-684
rmpCandidate(parsed, school) ==
    IF parsed # <<>> /\ looksLikeSameSchool(parsed[1].school, school)
    THEN <<[name |-> parsed[1].name, source |-> "rmp"]>>
    ELSE <<>>

\* the candidates of one school-site title, lines 690-697
schoolCandidates(runs) ==
    SelectSeq([i \in DOMAIN runs |-> [name |-> trim(runs[i]), source |-> "school"]],
              LAMBDA c : Len(Split(c.name, "", {" "}, TRUE)) >= 2)

\* candidates, lines 679-698
webCandidates(school, rmpResults, schoolResults) ==
    Concat([i \in DOMAIN rmpResults |->
               rmpCandidate(extractNameSchoolFromTitle(TextOr(rmpResults[i], "title", "")),
                            school)])
    \o Concat([i \in DOMAIN schoolResults |->
                  schoolCandidates(nameLikeFrom(TextOr(schoolResults[i], "title", ""), 1))])

RECURSIVE uniqueByName(_, _)
\* unique, lines 701-709
uniqueByName(cs, seen) ==
    IF cs = <<>> THEN <<>>
    ELSE IF toLowerCase(Head(cs).name) \in seen THEN uniqueByName(Tail(cs), seen)
    ELSE <<Head(cs)>> \o uniqueByName(Tail(cs), seen \cup {toLowerCase(Head(cs).name)})

\* one web ranking hit, lines 714-731; 0 stands for the null rank
webHit(c, course) ==
    [type |-> "ranking",
     score |-> IF c.source = "rmp" THEN 92 ELSE 85,
     data |-> [course |-> IF course # "" THEN course ELSE "(unknown course)",
               tags |-> <<"web_result">>,
               rank |-> 0,
               prof |-> [name |-> c.name, department |-> "(unknown)",
                         courses |-> IF course # "" THEN <<course>> ELSE <<>>]]]

webHits(unique, course) == [i \in DOMAIN unique |-> webHit(unique[i], course)]

\* the links card, lines 737-748, its answer kept as the titles it lists
linksCard(course, topLinks) ==
    [type |-> "faq", score |-> 80,
     data |-> [q |-> "Web results for " \o (IF course # "" THEN course ELSE "the course"),
               a |-> Join([i \in DOMAIN topLinks |-> TextOr(topLinks[i], "title", "")],
                          " ")]]

webResultMutEmpty(hits, course, unique, topLinks) ==
    IF unique # <<>>
    THEN [stage |-> "webNames", hits |-> Take(hits \o webHits(Take(unique, 3), course), 3)]
    ELSE IF topLinks # <<>>
    THEN [stage |-> "webLinks", hits |-> Take(hits \o <<linksCard(course, topLinks)>>, 3)]
    ELSE [stage |-> "webEmpty", hits |-> <<>>]

\* The end of the web fallback, lines 700-753: hits are the keyword hits
\* the stage was entered with.
webResult(hits, course, unique, topLinks) ==
    IF unique # <<>>
    THEN [stage |-> "webNames", hits |-> Take(hits \o webHits(Take(unique, 3), course), 3)]
    ELSE IF topLinks # <<>>
    THEN [stage |-> "webLinks", hits |-> Take(hits \o <<linksCard(course, topLinks)>>, 3)]
    ELSE [stage |-> "webEmpty", hits |-> Take(hits, 3)]

\* course, line 649, and school, line 650
webCourse(courseCodes) == IF courseCodes # <<>> THEN trim(courseCodes[1]) ELSE ""

schoolName(db) == IF Has(db, "school") THEN TextOr(db.school, "name", "") ELSE ""

webFinish(db, courseCodes, hits, rmpResults, schoolResults) ==
    webResult(hits, webCourse(courseCodes),
              uniqueByName(webCandidates(schoolName(db), rmpResults, schoolResults), {}),
              Take(rmpResults \o schoolResults, 5))

(***************************************************************************)
(* The /chat handler after the search, lines 816-983                       *)
(***************************************************************************)
\* fullMention, lines 318-319
fullMention(db, s) ==
    \E i \in DOMAIN db.professors :
        /\ TextOr(db.professors[i], "name", "") # ""
        /\ includes(s, toLowerCase(db.professors[i].name))

\* lastNameMention, lines 322-338
lastNameMention(db, w) ==
    \E i \in DOMAIN w, j \in DOMAIN db.professors :
        w[i] = lastWord(SplitSpaces(toLowerCase(TextOr(db.professors[j], "name", ""))))

\* intentOf with the name mention tested before the ranking phrase
intentOfMutLookupFirst(db, sess, s, w) ==
    IF majorReq(s) THEN "major_requirements"
    ELSE IF fullMention(db, s) \/ (w # <<>> /\ lastNameMention(db, w)) THEN "prof_lookup"
    ELSE IF RankPhrase(s) THEN "prof_ranking"
    ELSE IF MatchWord(s, {"waitlist", "full", "closed", "no seats", "class is full"})
    THEN "class_full"
    ELSE IF MatchWord(s, {"tutor", "tutoring", "stem center", "writing center"})
    THEN "tutoring"
    ELSE IF MatchWord(s, {"deadline", "last day", "drop", "withdraw", "add", "calendar"})
    THEN "deadline"
    ELSE IF MatchWord(s, {"who should i take"}) /\ sess.lastCourse # ""
    THEN "class_full"
    ELSE "generic"

\* the tests of lines 340-347 in turn
intentOf(db, sess, s, w) ==
    IF majorReq(s) THEN "major_requirements"
    ELSE IF RankPhrase(s) THEN "prof_ranking"
    ELSE IF fullMention(db, s) \/ (w # <<>> /\ lastNameMention(db, w)) THEN "prof_lookup"
    ELSE IF MatchWord(s, {"waitlist", "full", "closed", "no seats", "class is full"})
    THEN "class_full"
    ELSE IF MatchWord(s, {"tutor", "tutoring", "stem center", "writing center"})
    THEN "tutoring"
    ELSE IF MatchWord(s, {"deadline", "last day", "drop", "withdraw", "add", "calendar"})
    THEN "deadline"
    ELSE IF MatchWord(s, {"who should i take"}) /\ sess.lastCourse # ""
    THEN "class_full"
    ELSE "generic"

\* detectIntent, lines 313-348
detectIntent(db, sess, q) == intentOf(db, sess, toLowerCase(q), words(q))

\* allowByIntent, lines 817-826
allowByIntent(intent) ==
    CASE intent = "prof_ranking" -> {"ranking", "professor", "course"}
      [] intent = "prof_lookup" -> {"professor", "course"}
      [] intent = "class_full" -> {"ranking", "faq", "deadline"}
      [] intent = "tutoring" -> {"faq", "course", "deadline"}
      [] intent = "deadline" -> {"deadline", "faq"}
      [] intent = "major_requirements" -> {"major", "faq", "course"}
      [] OTHER -> {"professor", "course", "faq"}

\* filterBy that lets every hit through
filterByMutAll(intent, hits, allowed) == hits

\* filteredHits, lines 827-833
filterBy(intent, hits, allowed) ==
    IF /\ intent = "prof_ranking"
       /\ ~\E i \in DOMAIN hits : hits[i].type \in allowed \cap {"professor", "ranking"}
    THEN SelectSeq(hits, LAMBDA h : h.type \in allowed \cup {"faq"})
    ELSE SelectSeq(hits, LAMBDA h : h.type \in allowed)

filterHits(intent, hits) == filterBy(intent, hits, allowByIntent(intent))

\* the places of the entries of list named name, letter case aside
namedPlaces(list, name) ==
    {i \in DOMAIN list : toLowerCase(TextOr(list[i], "name", "")) = toLowerCase(name)}

\* list.findIndex(r => (r.name || "").toLowerCase() === name.toLowerCase()),
\* counted from 0; -1 when there is none
findIndexOf(places) == IF places = {} THEN 0 - 1 ELSE Min(places) - 1

findIndexByName(list, name) == findIndexOf(namedPlaces(list, name))

\* current, lines 846-848
cursorOf(sess, course) ==
    IF course \in DOMAIN sess.rankCursor THEN sess.rankCursor[course] ELSE 0

\* nextIndex, lines 851-858
nextIndexFrom(current, lastProfessor, idx) ==
    IF lastProfessor # "" /\ idx >= 0 THEN idx + 1 ELSE current + 1

nextIndexOf(list, sess, course) ==
    nextIndexFrom(cursorOf(sess, course), sess.lastProfessor,
                  findIndexByName(list, sess.lastProfessor))

\* addDrop, lines 865-867: found is the first deadline whose category has "add"
addDropFrom(found) ==
    IF found # <<>> THEN TextOr(found[1], "date", "the add deadline")
    ELSE "the add deadline"

addDropOf(db) ==
    addDropFrom(First(SelectSeq(db.deadlines,
                                LAMBDA d : includes(toLowerCase(Tmpl(d, "category")), "add"))))

NoReply == [kind |-> "none"]

\* handoffStep that forgets the last suggestion when the list is exhausted
handoffStepMutReset(db, sess0, course, list, nextIndex) ==
    IF list = <<>> THEN [replied |-> FALSE, reply |-> NoReply, sess |-> sess0]
    ELSE IF nextIndex > Len(list) - 1
    THEN [replied |-> TRUE,
          reply |-> [kind |-> "exhausted", course |-> course, addDrop |-> addDropOf(db)],
          sess |-> [sess0 EXCEPT !.lastProfessor = ""]]
    ELSE [replied |-> TRUE,
          reply |-> [kind |-> "next", course |-> course, index |-> nextIndex,
                     name |-> list[nextIndex + 1].name],
          sess |-> [sess0 EXCEPT !.rankCursor = (course :> nextIndex) @@ @,
                                 !.lastProfessor = list[nextIndex + 1].name]]

\* lines 844-900, with the list and the index computed
handoffStep(db, sess0, course, list, nextIndex) ==
    IF list = <<>> THEN [replied |-> FALSE, reply |-> NoReply, sess |-> sess0]
    ELSE IF nextIndex > Len(list) - 1
    THEN [replied |-> TRUE,
          reply |-> [kind |-> "exhausted", course |-> course, addDrop |-> addDropOf(db)],
          sess |-> sess0]
    ELSE [replied |-> TRUE,
          reply |-> [kind |-> "next", course |-> course, index |-> nextIndex,
                     name |-> list[nextIndex + 1].name],
          sess |-> [sess0 EXCEPT !.rankCursor = (course :> nextIndex) @@ @,
                                 !.lastProfessor = list[nextIndex + 1].name]]

handoffOn(db, sess0, course, list) ==
    handoffStep(db, sess0, course, list, nextIndexOf(list, sess0, course))

\* The next-best handoff, lines 836-901, entered with intent class_full
\* and lastCourse set: whether it replied, the reply, the session it leaves.
handoff(db, sess0) ==
    handoffOn(db, sess0, sess0.lastCourse, handoffList(db, sess0.lastCourse))

\* nextBest, lines 911-924: <<>> is null
nextBestOf(list, lastProfessor, idx) ==
    IF lastProfessor # "" /\ idx >= 0 /\ idx + 2 <= Len(list) THEN <<list[idx + 2]>>
    ELSE First(SelectSeq(list, LAMBDA r : "second_best" \in Range(ArrayOr(r, "tags")))
               \o SelectSeq(list, LAMBDA r : Has(r, "rank") /\ r.rank = 2)
               \o SubSeq(list, 2, Len(list)))

\* alreadyHas, lines 927-930
alreadyHas(filteredHits, nb) ==
    \E i \in DOMAIN filteredHits :
        /\ filteredHits[i].type = "ranking"
        /\ toLowerCase(filteredHits[i].data.prof.name) = toLowerCase(TextOr(nb, "name", ""))

\* lines 926-961
secondBestWith(db, sess0, filteredHits, nextBest) ==
    IF nextBest = <<>> \/ alreadyHas(filteredHits, nextBest[1])
    THEN [hits |-> filteredHits, sess |-> sess0]
    ELSE [hits |-> <<[type |-> "ranking", score |-> 96,
                      data |-> [course |-> sess0.lastCourse,
                                tags |-> IF Has(nextBest[1], "tags") THEN nextBest[1].tags
                                         ELSE <<"second_best">>,
                                rank |-> IF rankOr(nextBest[1]) = 999 THEN 2
                                         ELSE nextBest[1].rank,
                                prof |-> mergedProf(db, nextBest[1], sess0.lastCourse)]]>>
                   \o filteredHits,
          sess |-> [sess0 EXCEPT !.lastProfessor = nextBest[1].name]]

secondBestOn(db, sess0, filteredHits, list) ==
    secondBestWith(db, sess0, filteredHits,
                   nextBestOf(list, sess0.lastProfessor,
                              findIndexByName(list, sess0.lastProfessor)))

\* The second class_full block, lines 907-962: the hits it leaves and the
\* session.
secondBest(db, sess0, filteredHits) ==
    secondBestOn(db, sess0, filteredHits, handoffList(db, sess0.lastCourse))

\* maxSnippets, line 965
maxSnippets == 5

\* lines 964-966 and the request of line 985
toModel(intent, sb) ==
    [intent |-> intent, llm |-> TRUE, reply |-> NoReply, sess |-> sb.sess,
     sent |-> Take(sb.hits, maxSnippets)]

afterHandoffMutAlways(db, sess0, intent, filtered, ho) ==
    IF intent = "class_full" /\ sess0.lastCourse # ""
    THEN toModel(intent, secondBest(db, sess0, filtered))
    ELSE toModel(intent, [hits |-> filtered, sess |-> sess0])

\* lines 836-983 with the handoff's outcome ho
afterHandoff(db, sess0, intent, filtered, ho) ==
    IF ho.replied
    THEN [intent |-> intent, llm |-> FALSE, reply |-> ho.reply, sess |-> ho.sess,
          sent |-> <<>>]
    ELSE IF intent = "class_full" /\ sess0.lastCourse # ""
    THEN toModel(intent, secondBest(db, sess0, filtered))
    ELSE toModel(intent, [hits |-> filtered, sess |-> sess0])

afterIntent(db, sess0, intent, hits) ==
    afterHandoff(db, sess0, intent, filterHits(intent, hits),
                 IF intent = "class_full" /\ sess0.lastCourse # "" THEN handoff(db, sess0)
                 ELSE [replied |-> FALSE, reply |-> NoReply, sess |-> sess0])

\* The handler from line 816 to the reply or to the completion request:
\* sess0 is the session the search left, hits what it returned.
afterSearch(db, sess0, query, hits) ==
    afterIntent(db, sess0, detectIntent(db, sess0, query), hits)

(***************************************************************************)
(* The knowledge bases and the queries the model draws from                *)
(***************************************************************************)
Prof(name, courses) == [name |-> name, department |-> "Mathematics", courses |-> courses]

\* The professors arrays of the data files: two professors, and six that
\* share a last name.
ProfFiles ==
    { <<Prof("Ann Lee", <<"MATH 1A">>), Prof("Ed Kim", <<"CIS 22A">>)>>,
      <<Prof("Ann Lee", <<"MATH 1A">>), Prof("Bob Lee", <<"MATH 1A">>),
        Prof("Cy Lee", <<"CIS 22A">>), Prof("Di Lee", <<"CIS 22A">>),
        Prof("Flo Lee", <<"CIS 22A">>), Prof("Gus Lee", <<"CIS 22A">>)>> }

\* The entries of the ranking file, in the order of the file: a rank of 0,
\* then ranks 2 and 1.
RankFile ==
    << [name |-> "Ed Kim", rank |-> 0],
       [name |-> "Bob Lee", rank |-> 2, tags |-> <<"easiest">>],
       [name |-> "Ann Lee", rank |-> 1, tags |-> <<"best_overall">>] >>

\* the longest ranking list
MaxRank == 3

\* The ranking lists of MATH 1A: the runs of at most MaxRank entries of
\* the ranking file.
RankLists ==
    UNION {{SubSeq(RankFile, i, i + n) : i \in 1..(Len(RankFile) - n)} :
              n \in 0..(MaxRank - 1)}

\* school_data.json after the load of lines 127-160
KB(file, list) ==
    [school |-> [name |-> "De Anza College"],
     deadlines |-> <<[term |-> "Fall", category |-> "Add", description |-> "Last day",
                      date |-> "Sep 20"]>>,
     professors |-> dedupProfessors(file),
     courses |-> <<[code |-> "MATH 1A", title |-> "Calculus",
                    department |-> "Mathematics"]>>,
     faq |-> <<[q |-> "waitlist", a |-> "email the professor"]>>,
     majors |-> <<[campus |-> "UCLA", program |-> "Data Science"]>>,
     rankings |-> ("MATH 1A" :> list)]

Queries ==
    { "best professor for math 1a",
      "math 1a is full",
      "top math 1a is full",
      "second best professor for math 1a",
      "lee",
      "ann lee bob lee cy lee di lee",
      "best professor for phys 4a",
      "add deadline",
      "ucla data science requirements" }

(***************************************************************************)
(* The collaborators' answers                                              *)
(***************************************************************************)
\* The embedding the collaborator gave for an index item, by type.
ItemEmb(type) ==
    CASE type = "deadline" -> <<10, 0>>
      [] type = "professor" -> <<8, 6>>
      [] type = "course" -> <<7, 7>>
      [] type = "faq" -> <<7, 7>>
      [] OTHER -> <<10, 0>>

\* The embeddings the collaborator may give for a query.
QueryEmbs == {<<10, 0>>, <<6, 8>>, <<0, 10>>}

\* What one embedding call may come to: the status of the response and
\* its body.  A response with a non-success status carries an error body
\* or one that is not JSON.
EmbedAnswers ==
    {[ok |-> TRUE, body |-> "embedding", vec |-> v] : v \in QueryEmbs}
        \cup {[ok |-> o, body |-> "error", vec |-> <<0, 0>>] : o \in BOOLEAN}
        \cup {[ok |-> FALSE, body |-> "malformed", vec |-> <<0, 0>>]}

RmpTitle == "Ann Lee at De Anza College | Rate My Professors"

SchoolTitle == "MATH 1A Bob Lee"

PlainTitle == "math 1a"

SyllabusTitle == "Syllabus of Cy Kim"

\* the titles the search of the given step may list
WebTitles(step) ==
    IF step = 1 THEN {RmpTitle, PlainTitle}
    ELSE IF step = 2 THEN {SchoolTitle}
    ELSE IF step = 3 THEN {SyllabusTitle}
    ELSE {}

\* What one web search may come to: the fetch throws, the body is not
\* JSON, a non-success status, a body without items, or items.
WebAnswers(step) ==
    {[kind |-> k, items |-> <<>>] : k \in {"throw", "badBody", "nonOK", "noItems"}}
        \cup {[kind |-> "items", items |-> <<[title |-> t]>>] : t \in WebTitles(step)}

\* What the completion call may come to.
LLMAnswers == {"ok", "apiError", "throw"}

(***************************************************************************)
(* The requests                                                            *)
(***************************************************************************)
\* the web fallback of a request: the search it awaits, the results so
\* far, whether a search answered with a non-success status
NoWeb == [step |-> 0, rmp |-> <<>>, school |-> <<>>, nonOK |-> FALSE]

EmptySession == [lastCourse |-> "", lastProfessor |-> "", rankCursor |-> <<>>]

\* A slot that holds no request.  pc is the await the request is
\* suspended on ("embed", "web", "llm") or "done" once it is answered;
\* seen is the session the search left and left the one the handler left,
\* emb the embedding call's outcome, asked whether the completion
\* collaborator was called, was the lastCourse of the session when the
\* request came in.
Idle ==
    [pc |-> "idle", query |-> "", stage |-> "none", hits |-> <<>>, threw |-> FALSE,
     emb |-> "none", qEmb |-> <<0, 0>>, web |-> NoWeb, seen |-> EmptySession,
     left |-> EmptySession, intent |-> "none", sent |-> <<>>, asked |-> FALSE,
     reply |-> NoReply, was |-> ""]

\* the longest run of handoff replies that is recorded
MaxRun == 3

NoRun == [course |-> "", lookup |-> FALSE, shown |-> <<>>, served |-> {}]

\* The handoff replies given in a row for one course, and whether a
\* ranking lookup for that course came right before them, with the names
\* of the ranking snippets that lookup sent on (served): a request answered
\* in any other way ends the run.
runAfter(old, stage, h) ==
    IF h.reply.kind = "next"
    THEN IF old.course = h.reply.course
         THEN [old EXCEPT !.shown = Take(Append(@, [index |-> h.reply.index,
                                                     name |-> h.reply.name]), MaxRun)]
         ELSE [course |-> h.reply.course, lookup |-> FALSE,
               shown |-> <<[index |-> h.reply.index, name |-> h.reply.name]>>,
               served |-> {}]
    ELSE IF stage = "ranking" /\ h.intent = "prof_ranking"
    THEN [course |-> h.sess.lastCourse, lookup |-> TRUE, shown |-> <<>>,
          served |-> {h.sent[i].data.prof.name :
                         i \in {k \in DOMAIN h.sent : h.sent[k].type = "ranking"}}]
    ELSE NoRun

\* the handler's outcome h is recorded
Answer(r, rec, stage, hits, sess0, h) ==
    /\ req' = [req EXCEPT ![r] =
                  [rec EXCEPT !.pc = IF h.llm THEN "llm" ELSE "done",
                              !.stage = stage, !.hits = hits, !.seen = sess0,
                              !.left = h.sess, !.intent = h.intent, !.sent = h.sent,
                              !.asked = h.llm,
                              !.reply = h.reply]]
    /\ SESSION' = h.sess
    /\ run' = runAfter(run, stage, h)

\* searchLocalKB returns hits at the given stage, leaving the session
\* sess0, and the handler runs on to its reply or to the completion call.
Finish(r, rec, stage, hits, sess0) ==
    \E h \in {afterSearch(SCHOOL_DB, sess0, rec.query, hits)} :
        Answer(r, rec, stage, hits, sess0, h)

\* SearchThrows without the catch of the handler: the request stays
\* unanswered
SearchThrowsMutNoCatch(r, rec) ==
    /\ req' = [req EXCEPT ![r] = [rec EXCEPT !.pc = "lost", !.threw = TRUE,
                                            !.hits = <<>>,
                                            !.web = [NoWeb EXCEPT !.nonOK = rec.web.nonOK]]]
    /\ run' = NoRun
    /\ UNCHANGED SESSION

\* An exception leaves searchLocalKB, and what it had collected is lost: the
\* catch of lines 1030-1033. The record keeps whether a search of this
\* request had answered with a non-success status.
SearchThrows(r, rec) ==
    /\ req' = [req EXCEPT ![r] = [rec EXCEPT !.pc = "done", !.threw = TRUE,
                                            !.hits = <<>>,
                                            !.web = [NoWeb EXCEPT !.nonOK = rec.web.nonOK],
                                            !.reply = [kind |-> "error500"]]]
    /\ run' = NoRun
    /\ UNCHANGED SESSION

\* lines 488-753 with the outcome post of the stages before the web search
KeywordWith(r, rec, sess0, post) ==
    IF post.ret THEN Finish(r, rec, post.stage, post.hits, sess0)
    ELSE /\ req' = [req EXCEPT ![r] =
                       [rec EXCEPT !.pc = "web", !.stage = "web", !.hits = post.hits,
                                   !.web = [NoWeb EXCEPT !.step = 1]]]
         /\ SESSION' = sess0
         /\ UNCHANGED run

\* searchLocalKB from line 488 on: it returns, or awaits the first web
\* search.
Keyword(r, rec, sess0) ==
    \E post \in {searchAfterSemantic(SCHOOL_DB, rec.query)} :
        KeywordWith(r, rec, sess0, post)

\* lines 351-486 with the outcome pre of the stages before the first await
SubmitWith(r, rec, pre) ==
    IF pre.ret THEN Finish(r, rec, pre.stage, pre.hits, pre.sess)
    ELSE IF EMB_INDEX # <<>>
    THEN /\ req' = [req EXCEPT ![r] = [rec EXCEPT !.pc = "embed"]]
         /\ SESSION' = pre.sess
         /\ UNCHANGED run
    ELSE Keyword(r, rec, pre.sess)

\* POST /chat: the handler up to its first await.  The server listens
\* (line 1037) while buildIndex, called without await at line 233, is still
\* suspended.
Submit(r, q) ==
    /\ boot.phase \in {"building", "done", "failed"}
    /\ req[r].pc = "idle"
    /\ \E pre \in {searchPrefix(SCHOOL_DB, SESSION, q)} :
          SubmitWith(r, [Idle EXCEPT !.query = q, !.was = SESSION.lastCourse], pre)
    /\ UNCHANGED <<SCHOOL_DB, EMB_INDEX, boot>>

\* EmbedWith on a copy of the session that keeps the lastCourse of the
\* time the request came in
EmbedWithMutSnapshot(r, rec, hits) ==
    IF hits # <<>>
    THEN Finish(r, rec, "semantic", hits, [SESSION EXCEPT !.lastCourse = rec.was])
    ELSE Keyword(r, rec, [SESSION EXCEPT !.lastCourse = rec.was])

\* lines 467-486 with the hits of the semantic stage
EmbedWith(r, rec, hits) ==
    IF hits # <<>> THEN Finish(r, rec, "semantic", hits, SESSION)
    ELSE Keyword(r, rec, SESSION)

\* The embedding call of line 466 ends with the answer e.
EmbedReturn(r, e) ==
    /\ req[r].pc = "embed"
    /\ \E hits \in {IF e.body = "embedding" THEN semanticHits(EMB_INDEX, e.vec) ELSE <<>>} :
          EmbedWith(r, [req[r] EXCEPT !.emb = IF e.ok THEN e.body ELSE "nonOK",
                                      !.qEmb = e.vec],
                    hits)
    /\ UNCHANGED <<SCHOOL_DB, EMB_INDEX, boot>>

\* the results kept after the search of step w.step answered a
webAfter(w, a) ==
    [step |-> w.step + 1,
     rmp |-> IF w.step = 1 THEN a.items ELSE w.rmp,
     school |-> IF w.step = 1 THEN <<>> ELSE w.school \o a.items,
     nonOK |-> w.nonOK \/ a.kind = "nonOK"]

\* lines 700-753 once the five searches have answered
WebDone(r, rec, wf) == Finish(r, rec, wf.stage, wf.hits, SESSION)

\* WebStep with a non-success status raised like a transport failure
WebStepMutRaise(r, rec, a) ==
    IF a.kind \in {"throw", "badBody", "nonOK"} THEN SearchThrows(r, rec)
    ELSE IF rec.web.step <= 5
    THEN /\ req' = [req EXCEPT ![r] = rec]
         /\ UNCHANGED <<SESSION, run>>
    ELSE \E wf \in {webFinish(SCHOOL_DB, courseCodesInQuery(SCHOOL_DB, rec.query),
                              rec.hits, rec.web.rmp, rec.web.school)} :
            WebDone(r, rec, wf)

\* lines 655-676 once a search has answered: webSearch throws (line 23 or
\* 28), or the next search is awaited, or the results are read.
WebStep(r, rec, a) ==
    IF a.kind \in {"throw", "badBody"} THEN SearchThrows(r, rec)
    ELSE IF rec.web.step <= 5
    THEN /\ req' = [req EXCEPT ![r] = rec]
         /\ UNCHANGED <<SESSION, run>>
    ELSE \E wf \in {webFinish(SCHOOL_DB, courseCodesInQuery(SCHOOL_DB, rec.query),
                              rec.hits, rec.web.rmp, rec.web.school)} :
            WebDone(r, rec, wf)

\* One of the five web searches of lines 655-676 ends with the answer a.
WebReturn(r, a) ==
    /\ req[r].pc = "web"
    /\ \E rec \in {[req[r] EXCEPT !.web = webAfter(req[r].web, a)]} : WebStep(r, rec, a)
    /\ UNCHANGED <<SCHOOL_DB, EMB_INDEX, boot>>

\* The completion call of lines 985-1028 ends.
LLMReturn(r, a) ==
    /\ req[r].pc = "llm"
    /\ req' = [req EXCEPT ![r].pc = "done",
                          ![r].reply = [kind |-> CASE a = "ok" -> "llm"
                                                   [] a = "apiError" -> "apiError"
                                                   [] OTHER -> "error500"]]
    /\ UNCHANGED <<SCHOOL_DB, SESSION, EMB_INDEX, boot, run>>

\* The client has the response of line 868, 893, 1024, 1028 or 1032, and
\* the slot is free for its next request.
Respond(r) ==
    /\ req[r].pc = "done"
    /\ req' = [req EXCEPT ![r] = Idle]
    /\ UNCHANGED <<SCHOOL_DB, SESSION, EMB_INDEX, boot, run>>

\* one kind of index item, lines 174-222, with the embedding of line 226
itemsOf(arr, type) ==
    [i \in DOMAIN arr |-> [type |-> type, data |-> arr[i], emb |-> ItemEmb(type)]]

indexItems(db) ==
    itemsOf(db.deadlines, "deadline") \o itemsOf(db.professors, "professor")
        \o itemsOf(db.courses, "course") \o itemsOf(db.faq, "faq")
        \o itemsOf(db.majors, "major")

(***************************************************************************)
(* The server once buildIndex has ended: with every item embedded, or     *)
(* with none when its first embedding call failed.                         *)
(***************************************************************************)
Init ==
    /\ \E file \in ProfFiles, list \in RankLists :
          /\ SCHOOL_DB = KB(file, list)
          /\ boot \in {[phase |-> p, file |-> file] : p \in {"done", "failed"}}
    /\ EMB_INDEX = IF boot.phase = "done" THEN indexItems(SCHOOL_DB) ELSE <<>>
    /\ SESSION = EmptySession
    /\ req = [r \in {1} |-> Idle]
    /\ run = NoRun

Next ==
    \/ \E r \in DOMAIN req, q \in Queries : Submit(r, q)
    \/ \E r \in DOMAIN req, e \in EmbedAnswers : EmbedReturn(r, e)
    \/ \E r \in DOMAIN req : \E a \in WebAnswers(req[r].web.step) : WebReturn(r, a)
    \/ \E r \in DOMAIN req, a \in LLMAnswers : LLMReturn(r, a)
    \/ \E r \in DOMAIN req : Respond(r)

Spec == Init /\ [][Next]_vars

(***************************************************************************)
(* The load of the data file, lines 126-160                                *)
(***************************************************************************)
\* The professor entries a data file is made of: one name in three
\* spellings, a second name with a course listed twice, and an entry
\* without name.
RawEntries ==
    { [name |-> "Ann Lee", department |-> "Mathematics", courses |-> <<"MATH 1A">>],
      [name |-> " ann lee", courses |-> <<"MATH 1B">>],
      [name |-> "Ann  Lee", department |-> "Physics", courses |-> <<"MATH 1A">>],
      [name |-> "Ed Kim", department |-> "CIS", courses |-> <<"CIS 22A", "CIS 22A">>],
      [department |-> "Art"] }

\* the longest professors array of a data file
MaxFile == 3

RawFiles == UNION {[1..n -> RawEntries] : n \in 0..MaxFile}

\* the data file is parsed, lines 128-129
InitLoad ==
    /\ \E file \in RawFiles :
          /\ SCHOOL_DB = [KB(<<>>, <<>>) EXCEPT !.professors = file]
          /\ boot = [phase |-> "load", file |-> file]
    /\ EMB_INDEX = <<>>
    /\ SESSION = EmptySession
    /\ req = [r \in {1} |-> Idle]
    /\ run = NoRun

\* The de-duplication of lines 137-160.
Load ==
    /\ boot.phase = "load"
    /\ SCHOOL_DB' = [SCHOOL_DB EXCEPT !.professors = dedupProfessors(@)]
    /\ boot' = [boot EXCEPT !.phase = "loaded"]
    /\ UNCHANGED <<SESSION, EMB_INDEX, req, run>>

NextLoad == Load

SpecLoad == InitLoad /\ [][NextLoad]_vars

(***************************************************************************)
(* The build of the embedding index, lines 172-233, with requests served   *)
(* while it runs                                                           *)
(***************************************************************************)
\* the knowledge base of the build: two professors and one ranked entry
BuildKB ==
    KB(<<Prof("Ann Lee", <<"MATH 1A">>), Prof("Ed Kim", <<"CIS 22A">>)>>,
       <<RankFile[3]>>)

BuildQueries == {"add deadline", "best professor for phys 4a"}

\* buildIndex has emptied EMB_INDEX (line 224) and is suspended on the
\* embedding call of its first item (line 226); the server listens.
InitBuild ==
    /\ SCHOOL_DB = BuildKB
    /\ boot = [phase |-> "building", file |-> <<>>]
    /\ EMB_INDEX = <<>>
    /\ SESSION = EmptySession
    /\ req = [r \in {1} |-> Idle]
    /\ run = NoRun

\* the index once the item after its last one is pushed, line 227
pushNext(index, items) == Append(index, items[Len(index) + 1])

\* The embedding call of line 226 ends: the item is pushed and the loop goes
\* on to the next item or ends, or the exception ends the build at the
\* catch of line 229 with the items pushed so far left in EMB_INDEX.
BuildReturn(ok) ==
    /\ boot.phase = "building"
    /\ IF ok
       THEN /\ EMB_INDEX' = pushNext(EMB_INDEX, indexItems(SCHOOL_DB))
            /\ boot' = [boot EXCEPT !.phase = IF Len(EMB_INDEX) + 1 = Len(indexItems(SCHOOL_DB))
                                              THEN "done" ELSE "building"]
       ELSE /\ boot' = [boot EXCEPT !.phase = "failed"]
            /\ UNCHANGED EMB_INDEX
    /\ UNCHANGED <<SCHOOL_DB, SESSION, req, run>>

NextBuild ==
    \/ \E ok \in BOOLEAN : BuildReturn(ok)
    \/ \E r \in DOMAIN req, q \in BuildQueries : Submit(r, q)
    \/ \E r \in DOMAIN req, e \in EmbedAnswers : EmbedReturn(r, e)
    \/ \E r \in DOMAIN req : \E a \in WebAnswers(req[r].web.step) : WebReturn(r, a)
    \/ \E r \in DOMAIN req, a \in LLMAnswers : LLMReturn(r, a)
    \/ \E r \in DOMAIN req : Respond(r)

SpecBuild == InitBuild /\ [][NextBuild]_vars

(***************************************************************************)
(* The server with every collaborator call of a request ending: the        *)
(* embedding call, each web search and the completion call return or fail. *)
(***************************************************************************)
FairQueries ==
    {"best professor for math 1a", "math 1a is full", "best professor for phys 4a"}

\* the server once buildIndex has ended, with every item embedded or none
InitFair ==
    /\ SCHOOL_DB = BuildKB
    /\ boot \in {[phase |-> p, file |-> <<>>] : p \in {"done", "failed"}}
    /\ EMB_INDEX = IF boot.phase = "done" THEN indexItems(SCHOOL_DB) ELSE <<>>
    /\ SESSION = EmptySession
    /\ req = [r \in {1} |-> Idle]
    /\ run = NoRun

NextFair ==
    \/ \E r \in DOMAIN req, q \in FairQueries : Submit(r, q)
    \/ \E r \in DOMAIN req, e \in EmbedAnswers : EmbedReturn(r, e)
    \/ \E r \in DOMAIN req : \E a \in WebAnswers(req[r].web.step) : WebReturn(r, a)
    \/ \E r \in DOMAIN req, a \in LLMAnswers : LLMReturn(r, a)
    \/ \E r \in DOMAIN req : Respond(r)

\* the request of slot r awaits the collaborator call named by pc, the
\* k-th web search when pc is "web"
awaits(r, pc, k) == req[r].pc = pc /\ (pc = "web" => req[r].web.step = k)

\* No await lasts for ever.  An answer exists for every call (EmbedAnswers,
\* WebAnswers, LLMAnswers) and the step that takes it ends the await, so
\* this is weak fairness of EmbedReturn, WebReturn and LLMReturn, stated
\* on the state.
SpecFair ==
    /\ InitFair /\ [][NextFair]_vars
    /\ \A r \in {1} :
          /\ []<>(~awaits(r, "embed", 0))
          /\ \A k \in 1..5 : []<>(~awaits(r, "web", k))
          /\ []<>(~awaits(r, "llm", 0))

(***************************************************************************)
(* detectIntent on its own: the queries made of at most MaxParts of the    *)
(* phrases its tests look for, with lastCourse null or set                 *)
(***************************************************************************)
IntentParts ==
    << "ucla ds", "top prof", "ann lee", "kim", "full", "tutor", "add",
       "who should i take" >>

\* the most phrases in one query
MaxParts == 3

RECURSIVE partsQuery(_, _)
\* the phrases of IntentParts chosen by S, from the i-th on, in one query
partsQuery(S, i) ==
    IF i > Len(IntentParts) THEN ""
    ELSE (IF i \in S THEN IntentParts[i] \o " " ELSE "") \o partsQuery(S, i + 1)

\* the session before any ranking lookup, and after one for MATH 1A
\* (lines 425-426)
IntentSessions ==
    { EmptySession,
      [EmptySession EXCEPT !.lastCourse = "MATH 1A", !.rankCursor = ("MATH 1A" :> 0)] }

InitIntent ==
    /\ SCHOOL_DB = BuildKB
    /\ boot = [phase |-> "intent", file |-> <<>>]
    /\ EMB_INDEX = <<>>
    /\ SESSION \in IntentSessions
    /\ \E S \in {T \in SUBSET DOMAIN IntentParts : Cardinality(T) <= MaxParts} :
          req = [r \in {1} |-> [Idle EXCEPT !.query = partsQuery(S, 1)]]
    /\ run = NoRun

\* line 816: const intent = detectIntent(userMessage)
Classify(r) ==
    /\ boot.phase = "intent"
    /\ req[r].pc = "idle"
    /\ req' = [req EXCEPT ![r].pc = "classified",
                          ![r].intent = detectIntent(SCHOOL_DB, SESSION, req[r].query)]
    /\ UNCHANGED <<SCHOOL_DB, SESSION, EMB_INDEX, boot, run>>

NextIntent == \E r \in DOMAIN req : Classify(r)

SpecIntent == InitIntent /\ [][NextIntent]_vars

(***************************************************************************)
(* canonCourse on its own: every text of at most MaxCode characters over a *)
(* lower-case letter, an upper-case letter, a digit, the space and the     *)
(* hyphen, canonicalized and canonicalized again                           *)
(***************************************************************************)
MaxCode == 4

CodeChars == {"a", "B", "1", " ", "-"}

RECURSIVE CodeTexts(_)
\* the texts of n characters of CodeChars
CodeTexts(n) ==
    IF n = 0 THEN {""} ELSE {s \o c : s \in CodeTexts(n - 1), c \in CodeChars}

InitCanon ==
    /\ SCHOOL_DB = BuildKB
    /\ boot = [phase |-> "canon", file |-> <<>>]
    /\ EMB_INDEX = <<>>
    /\ SESSION = EmptySession
    /\ \E n \in 0..MaxCode : \E s \in CodeTexts(n) :
          req = [r \in {1} |-> [Idle EXCEPT !.query = s]]
    /\ run = NoRun

\* canonCourse applied to the text, and then to its own result
Canon(r) ==
    /\ boot.phase = "canon"
    /\ \/ /\ req[r].pc = "idle"
          /\ req' = [req EXCEPT ![r].pc = "once",
                                ![r].reply = [kind |-> "code",
                                              once |-> canonCourse(req[r].query)]]
       \/ /\ req[r].pc = "once"
          /\ req' = [req EXCEPT ![r].pc = "twice",
                                ![r].reply = [kind |-> "code", once |-> req[r].reply.once,
                                              twice |-> canonCourse(req[r].reply.once)]]
    /\ UNCHANGED <<SCHOOL_DB, SESSION, EMB_INDEX, boot, run>>

NextCanon == \E r \in DOMAIN req : Canon(r)

SpecCanon == InitCanon /\ [][NextCanon]_vars

(***************************************************************************)
(* Two requests in flight.  Each stretch of a handler between two awaits   *)
(* runs alone (one JavaScript thread), and the stretches of the two        *)
(* requests interleave at the awaits; SESSION is shared.                   *)
(***************************************************************************)
TwoKB ==
    [BuildKB EXCEPT !.rankings =
        ("MATH 1A" :> <<RankFile[3], RankFile[2]>>)
            @@ ("CIS 22A" :> <<[name |-> "Ed Kim", rank |-> 1],
                               [name |-> "Cy Lee", rank |-> 2]>>)]

\* none of these queries enters the web fallback
TwoQueries == {"best professor for math 1a", "best professor for cis 22a", "class is full"}

\* the embedding call gives a vector close to the professors' items, or
\* fails
TwoEmbeds == {e \in EmbedAnswers : e.vec = <<6, 8>> \/ (e.ok /\ e.body = "error")}

InitTwo ==
    /\ SCHOOL_DB = TwoKB
    /\ boot = [phase |-> "done", file |-> <<>>]
    /\ EMB_INDEX = indexItems(SCHOOL_DB)
    /\ SESSION = EmptySession
    /\ req = [r \in {1, 2} |-> Idle]
    /\ run = NoRun

NextTwo ==
    \/ \E r \in DOMAIN req, q \in TwoQueries : Submit(r, q)
    \/ \E r \in DOMAIN req, e \in TwoEmbeds : EmbedReturn(r, e)
    \/ \E r \in DOMAIN req, a \in {"ok"} : LLMReturn(r, a)
    \/ \E r \in DOMAIN req : Respond(r)

SpecTwo == InitTwo /\ [][NextTwo]_vars

(***************************************************************************)
(* Properties                                                              *)
(***************************************************************************)
\* searchLocalKB returned to the handler of request r
searchReturned(r) == req[r].pc \in {"llm", "done"} /\ ~req[r].threw

\* the ranking hits among the hits of request r
rankingHitsOf(r) == SelectSeq(req[r].hits, LAMBDA h : h.type = "ranking")

\* the rank the knowledge base gives name in the list of code
rankInFile(code, name) ==
    rankNullish(CHOOSE e \in Range(rankingsOf(SCHOOL_DB, code)) : e.name = name)

\* C1: whichever stage produces it, the list search returns holds at most
\* 3 hits.
C1_AtMostThreeHits ==
    \A r \in DOMAIN req : searchReturned(r) => Len(req[r].hits) <= 3

\* C2: in a run of class_full requests after a ranking lookup for a
\* course, every handoff reply names a strictly later position of the list
\* than the replies before it, and no professor is named twice.
C2_RunAdvances ==
    run.lookup =>
        \A i, j \in DOMAIN run.shown :
            i < j => /\ run.shown[i].index < run.shown[j].index
                     /\ run.shown[i].name # run.shown[j].name

\* C3: a search that returns at the ranking stage returns its ranking hits
\* in ascending rank order and leaves lastCourse = the code and
\* lastProfessor = the name of the first hit, which is the best ranked.
C3_RankingOrder ==
    \A r \in DOMAIN req :
        searchReturned(r) /\ req[r].stage = "ranking" =>
            /\ rankingHitsOf(r) # <<>>
            /\ \A i, j \in DOMAIN rankingHitsOf(r) :
                  i < j => rankInFile(rankingHitsOf(r)[i].data.course,
                                      rankingHitsOf(r)[i].data.prof.name)
                             <= rankInFile(rankingHitsOf(r)[j].data.course,
                                           rankingHitsOf(r)[j].data.prof.name)
            /\ req[r].seen.lastCourse = rankingHitsOf(r)[1].data.course
            /\ req[r].seen.lastProfessor = rankingHitsOf(r)[1].data.prof.name

\* the request r was classified class_full with lastCourse set
classFull(r) ==
    /\ searchReturned(r)
    /\ req[r].intent = "class_full"
    /\ req[r].seen.lastCourse # ""

\* the places of the professor named last in the sorted list
lastPlaces(list, sess) ==
    {i \in DOMAIN list : toLowerCase(list[i].name) = toLowerCase(sess.lastProfessor)}

\* the index, from 0, the handoff is to resume at
resumeIndex(list, sess) ==
    IF sess.lastProfessor # "" /\ lastPlaces(list, sess) # {}
    THEN Min(lastPlaces(list, sess))
    ELSE (IF sess.lastCourse \in DOMAIN sess.rankCursor
          THEN sess.rankCursor[sess.lastCourse] ELSE 0) + 1

\* the reply of request r is the one the handoff rule gives on list
handoffRule(r, list, n) ==
    IF n + 1 <= Len(list)
    THEN /\ req[r].reply = [kind |-> "next", course |-> req[r].seen.lastCourse,
                            index |-> n, name |-> list[n + 1].name]
         /\ req[r].left.rankCursor[req[r].seen.lastCourse] = n
         /\ req[r].left.lastProfessor = list[n + 1].name
         /\ req[r].left.lastCourse = req[r].seen.lastCourse
    ELSE /\ req[r].reply.kind = "exhausted"
         /\ req[r].left = req[r].seen

\* C4: every class_full request with lastCourse set replies with the entry
\* at the index after the position of lastProfessor in the rank-sorted
\* list, or at rankCursor[course] + 1 when lastProfessor is not in the list,
\* and sets rankCursor[course] and lastProfessor to it, or gives the
\* exhaustion message when no entry exists there; so after a ranking lookup
\* on a list of two entries the first class_full names the entry at index 1
\* and the second names nobody.
C4_HandoffAfterLookup ==
    /\ \A r \in DOMAIN req :
          classFull(r) =>
              handoffRule(r, handoffList(SCHOOL_DB, req[r].seen.lastCourse),
                          resumeIndex(handoffList(SCHOOL_DB, req[r].seen.lastCourse),
                                      req[r].seen))
    /\ run.lookup /\ Len(rankingsOf(SCHOOL_DB, run.course)) = 2 =>
          \A i \in DOMAIN run.shown : i = 1 /\ run.shown[i].index = 1

C6_NonSuccessFallsThrough ==
    [][\A r \in DOMAIN req :
          /\ req[r].emb # "nonOK" /\ req'[r].emb = "nonOK" =>
                /\ ~req'[r].threw
                /\ req'[r].pc \in {"web", "llm", "done"}
                /\ req'[r].stage \in {"hardFilter", "major", "web", "keyword"}
          /\ ~req[r].web.nonOK /\ req'[r].web.nonOK =>
                /\ ~req'[r].threw
                /\ req'[r].pc \in {"web", "llm", "done"}
                /\ req'[r].web.step = req[r].web.step + 1
                /\ req'[r].web.rmp = req[r].web.rmp
                /\ req'[r].web.school = req[r].web.school]_vars

\* a request was answered after its embedding call and one of its web
\* searches answered with a non-success status
C6_Witness ==
    \E r \in DOMAIN req :
        /\ req[r].emb = "nonOK"
        /\ req[r].web.nonOK
        /\ req[r].pc = "done"
        /\ req[r].asked
        /\ ~req[r].threw

\* C7: a transport failure of a web search is caught at the call, so that
\* no exception leaves searchLocalKB.
C7_SearchNeverThrows ==
    \A r \in DOMAIN req : ~req[r].threw

\* the web fallback of request r ended and no search listed an item
webFoundNothing(r) ==
    /\ searchReturned(r)
    /\ req[r].web.step > 5
    /\ req[r].web.rmp = <<>>
    /\ req[r].web.school = <<>>

\* C8 as stated: when the web fallback is entered and every search lists
\* no item, search returns an empty list.
C8_Original ==
    \A r \in DOMAIN req : webFoundNothing(r) => req[r].hits = <<>>

\* C8: when the web fallback is entered and every search lists no item,
\* search returns the first 3 of the keyword hits collected before it, none
\* of them a ranking or a professor hit.
C8_KeepsKeywordHits ==
    \A r \in DOMAIN req :
        webFoundNothing(r) =>
            /\ req[r].hits = Take(searchAfterSemantic(SCHOOL_DB, req[r].query).hits, 3)
            /\ \A i \in DOMAIN req[r].hits :
                  req[r].hits[i].type \notin {"ranking", "professor"}

\* the web fallback found nothing and search returned a keyword hit
C8_Witness ==
    \E r \in DOMAIN req : webFoundNothing(r) /\ req[r].hits # <<>>

\* the index item the hit h was made from has at least the similarity
\* MIN_SIM to q, and every item more similar than it is among hits
fromSimilarItem(h, hits, q) ==
    \E i \in DOMAIN EMB_INDEX :
        /\ EMB_INDEX[i].type = h.type /\ EMB_INDEX[i].data = h.data
        /\ 10000 * dot(q, EMB_INDEX[i].emb) * dot(q, EMB_INDEX[i].emb)
              >= MIN_SIM * MIN_SIM * dot(q, q) * dot(EMB_INDEX[i].emb, EMB_INDEX[i].emb)
        /\ \A j \in DOMAIN EMB_INDEX :
              cosineGreater(q, EMB_INDEX[j].emb, EMB_INDEX[i].emb) =>
                 \E k \in DOMAIN hits : /\ hits[k].type = EMB_INDEX[j].type
                                        /\ hits[k].data = EMB_INDEX[j].data

\* C9: every hit the semantic stage returns comes from an index item whose
\* cosine similarity to the query is at least 0.78, and the stage returns
\* at most the 3 most similar such items.
C9_SemanticThreshold ==
    \A r \in DOMAIN req :
        searchReturned(r) /\ req[r].stage = "semantic" =>
            /\ Len(req[r].hits) \in 1..3
            /\ \A i \in DOMAIN req[r].hits :
                  fromSimilarItem(req[r].hits[i], req[r].hits, req[r].qEmb)

\* the semantic stage returned 3 hits and left out an item of the index
\* that was similar enough
C9_Witness ==
    \E r \in DOMAIN req :
        /\ searchReturned(r) /\ req[r].stage = "semantic"
        /\ Len(req[r].hits) = 3
        /\ Cardinality({i \in DOMAIN EMB_INDEX :
                           cosineAtLeast(req[r].qEmb, EMB_INDEX[i].emb, MIN_SIM)}) > 3

\* a name with its letter case and the spaces around it set aside
nameEnds(n) == trim(toLowerCase(n))

\* a name with its letter case, the spaces around it and the length of the
\* runs of spaces in it set aside
nameSpaces(n) == Join(SelectSeq(SplitSpaces(toLowerCase(n)), LAMBDA w : w # ""), " ")

\* the entries of the data file that bear the name of the record p
entriesOf(p) ==
    {k \in DOMAIN boot.file :
        nameEnds(TextOr(boot.file[k], "name", "")) = nameEnds(p.name)}

\* the last of the entries ks that has the field f
lastWith(ks, f) ==
    CHOOSE k \in ks : Has(boot.file[k], f) /\ \A o \in ks : Has(boot.file[o], f) => o <= k

\* the courses of p are those of its entries, and each other field is the
\* one of the last entry that has it
mergedFrom(p, ks) ==
    /\ ks # {}
    /\ Range(p.courses) = UNION {Range(ArrayOr(boot.file[k], "courses")) : k \in ks}
    /\ Cardinality(Range(p.courses)) = Len(p.courses)
    /\ \A f \in {"name", "department"} :
          IF \E k \in ks : Has(boot.file[k], f)
          THEN Has(p, f) /\ p[f] = boot.file[lastWith(ks, f)][f]
          ELSE ~Has(p, f)

\* every record is the merge of the entries that bear its name
recordsMerged ==
    /\ \A i \in DOMAIN SCHOOL_DB.professors :
          mergedFrom(SCHOOL_DB.professors[i], entriesOf(SCHOOL_DB.professors[i]))
    /\ \A k \in DOMAIN boot.file :
          nameEnds(TextOr(boot.file[k], "name", "")) # "" =>
             \E i \in DOMAIN SCHOOL_DB.professors : k \in entriesOf(SCHOOL_DB.professors[i])

\* C10 as stated: after the load no two professor records have the same
\* name up to letter case and whitespace, each record's courses are the
\* union of the courses of the loaded entries with that name, and the
\* later entry's other fields win.
C10_Original ==
    boot.phase = "loaded" =>
        /\ \A i, j \in DOMAIN SCHOOL_DB.professors :
              i # j => nameSpaces(SCHOOL_DB.professors[i].name)
                         # nameSpaces(SCHOOL_DB.professors[j].name)
        /\ recordsMerged

\* C10: after the load no two professor records have the same name up to
\* letter case and the whitespace before and after it, each record's
\* courses are the union of the courses of the loaded entries with that
\* name, and the later entry's other fields win.
C10_OnePerName ==
    boot.phase = "loaded" =>
        /\ \A i, j \in DOMAIN SCHOOL_DB.professors :
              i # j => nameEnds(SCHOOL_DB.professors[i].name)
                         # nameEnds(SCHOOL_DB.professors[j].name)
        /\ recordsMerged

\* three entries of one name were merged into one record with two courses
C10_Witness ==
    /\ boot.phase = "loaded"
    /\ Len(boot.file) = 3
    /\ Len(SCHOOL_DB.professors) = 1
    /\ Len(SCHOOL_DB.professors[1].courses) = 2
    /\ SCHOOL_DB.professors[1].name # TextOr(boot.file[1], "name", "")

\* C11: no search reads a partially built embedding index: whenever a
\* request is in the semantic stage, EMB_INDEX is empty or holds one item
\* for every record of the knowledge base.
C11_IndexWhole ==
    \A r \in DOMAIN req :
        req[r].pc = "embed" =>
            EMB_INDEX = <<>> \/ Len(EMB_INDEX) = Len(indexItems(SCHOOL_DB))

\* the kinds of reply a response carries
replyKinds == {"next", "exhausted", "llm", "apiError", "error500"}

\* C12: every request whose collaborator calls each return or fail is
\* answered, with exactly one response that carries a reply: an exception
\* out of the search or of the completion call gives the 500 reply, an
\* error body of the completion call gives the API-error reply, and a
\* request that is answered is not answered again.
C12_OneResponse ==
    /\ \A r \in {1} : [](req[r].pc \in {"embed", "web", "llm"} => <>(req[r].pc = "done"))
    /\ [][\A r \in DOMAIN req :
            /\ req[r].pc = "done" => req'[r] = req[r] \/ req'[r] = Idle
            /\ req'[r].pc = "done" <=> req'[r].reply.kind \in replyKinds
            /\ req'[r].pc = "done" /\ req'[r].threw => req'[r].reply.kind = "error500"
            /\ req[r].pc = "llm" /\ req'[r].pc = "done" =>
                  req'[r].reply.kind \in {"llm", "apiError", "error500"}]_vars

\* a request whose web search failed was answered with the 500 reply
C12_Witness ==
    \E r \in DOMAIN req :
        /\ req[r].pc = "done"
        /\ req[r].threw
        /\ req[r].reply.kind = "error500"

intentNames ==
    << "major_requirements", "prof_ranking", "prof_lookup", "class_full", "tutoring",
       "deadline", "class_full", "generic" >>

\* whether the query q satisfies the condition of each intent of intentNames
intentConds(db, sess, q) ==
    << majorReq(toLowerCase(q)),
       RankPhrase(toLowerCase(q)),
       fullMention(db, toLowerCase(q)) \/ lastNameMention(db, words(q)),
       MatchWord(toLowerCase(q), {"waitlist", "full", "closed", "no seats", "class is full"}),
       MatchWord(toLowerCase(q), {"tutor", "tutoring", "stem center", "writing center"}),
       MatchWord(toLowerCase(q), {"deadline", "last day", "drop", "withdraw", "add",
                                  "calendar"}),
       MatchWord(toLowerCase(q), {"who should i take"}) /\ sess.lastCourse # "",
       TRUE >>

\* C14: detectIntent returns the intent of the first condition the query
\* satisfies in the order major_requirements, prof_ranking, prof_lookup,
\* class_full, tutoring, deadline, class_full ("who should i take" with
\* lastCourse set), generic; so a query with the ranking phrase and a
\* professor's name that is no major-requirements query is prof_ranking, and
\* "who should i take" with no earlier condition and lastCourse null is
\* generic.
C14_FirstMatch ==
    \A r \in DOMAIN req :
        req[r].pc = "classified" =>
            LET c == intentConds(SCHOOL_DB, SESSION, req[r].query) IN
            /\ \E k \in DOMAIN c :
                  /\ c[k] /\ \A j \in 1..(k - 1) : ~c[j]
                  /\ req[r].intent = intentNames[k]
            /\ c[2] /\ c[3] /\ ~c[1] => req[r].intent = "prof_ranking"
            /\ (\A j \in 1..6 : ~c[j]) /\ SESSION.lastCourse = ""
                   /\ MatchWord(req[r].query, {"who should i take"}) =>
                  req[r].intent = "generic"

\* a classified query that holds the ranking phrase and a professor's name
C14_Witness ==
    \E r \in DOMAIN req :
        /\ req[r].pc = "classified" /\ req[r].intent = "prof_ranking"
        /\ RankPhrase(req[r].query)
        /\ fullMention(SCHOOL_DB, req[r].query) \/ lastNameMention(SCHOOL_DB, words(req[r].query))

\* C15: every snippet sent to the completion collaborator is a hit of the
\* search, or the ranking hit the class_full code added, and its type is in
\* the allow-list of the detected intent, or it is a faq hit under
\* prof_ranking when the search returned no professor or ranking hit; at
\* most 5 snippets are sent.
C15_SnippetsAllowed ==
    \A r \in DOMAIN req :
        req[r].asked =>
            /\ Len(req[r].sent) <= 5
            /\ \A i \in DOMAIN req[r].sent :
                  /\ \/ \E j \in DOMAIN req[r].hits : req[r].hits[j] = req[r].sent[i]
                     \/ req[r].intent = "class_full" /\ req[r].sent[i].type = "ranking"
                  /\ \/ req[r].sent[i].type \in allowByIntent(req[r].intent)
                     \/ /\ req[r].sent[i].type = "faq"
                        /\ req[r].intent = "prof_ranking"
                        /\ \A j \in DOMAIN req[r].hits :
                              req[r].hits[j].type \notin {"professor", "ranking"}

\* the search returned more than 5 hits and the completion collaborator
\* got 5 snippets
C15_Witness ==
    \E r \in DOMAIN req :
        req[r].asked /\ Len(req[r].hits) > 5 /\ Len(req[r].sent) = 5

\* C16: canonCourse is idempotent: on every text of letters, digits, spaces
\* and hyphens, canonCourse(canonCourse(s)) = canonCourse(s).
C16_Idempotent ==
    \A r \in DOMAIN req :
        req[r].pc = "twice" => req[r].reply.twice = req[r].reply.once

\* a text canonCourse changed in case, in its separators and at its ends
C16_Witness ==
    \E r \in DOMAIN req :
        /\ req[r].pc = "twice" /\ req[r].query = "-a-B"
        /\ req[r].reply.once = "A B" /\ req[r].reply.twice = "A B"

\* the request of slot r is submitted on this step with a ranking query,
\* and no professor mention answers it
rankingQuery(r) ==
    /\ req[r].pc = "idle" /\ req'[r].pc # "idle"
    /\ req'[r].stage \notin {"fullName", "lastName"}
    /\ rankIntent(toLowerCase(req'[r].query)).asked

\* the session searchLocalKB left on the step that submits slot r
searchLeft(r) == IF req'[r].pc \in {"llm", "done"} THEN req'[r].seen ELSE SESSION'

\* C17: for a ranking query with a resolved course the ranking stage
\* returns if and only if the ranking list of the course is not empty; in
\* both cases it leaves lastCourse = code and rankCursor[code] = 0, and when
\* it does not return the search leaves lastProfessor as it was.
C17_RankingStageFrame ==
    [][\A r \in DOMAIN req :
           rankingQuery(r) =>
               \A codes \in {courseCodesInQuery(SCHOOL_DB, req'[r].query)} :
                   codes # <<>> =>
                       /\ req'[r].stage = "ranking" <=> rankingsOf(SCHOOL_DB, codes[1]) # <<>>
                       /\ req'[r].stage = "ranking" =>
                              /\ req'[r].pc \in {"llm", "done"}
                              /\ \E i \in DOMAIN req'[r].hits :
                                    req'[r].hits[i].type = "ranking"
                       /\ searchLeft(r).lastCourse = codes[1]
                       /\ codes[1] \in DOMAIN searchLeft(r).rankCursor
                       /\ searchLeft(r).rankCursor[codes[1]] = 0
                       /\ req'[r].stage # "ranking" =>
                              searchLeft(r).lastProfessor = SESSION.lastProfessor]_vars

\* the ranking stage fell through for a course without rankings, after an
\* earlier request had set lastProfessor, and the request awaits the web
\* search
C17_Witness ==
    \E r \in DOMAIN req :
        /\ req[r].pc = "web" /\ req[r].query = "best professor for phys 4a"
        /\ SESSION.lastCourse = "PHYS 4A" /\ SESSION.rankCursor["PHYS 4A"] = 0
        /\ SESSION.lastProfessor # ""

\* the places of the hits of one type
placesOf(hits, type) == {i \in DOMAIN hits : hits[i].type = type}

\* C18: when the ranking stage returns and the resolved code has a Course
\* record, the returned list holds the chosen ranking hits (up to 3), each
\* with score 100 - 2 * rank, and exactly one course hit of score 0 for that
\* code.
C18_RankingPlusCourse ==
    \A r \in DOMAIN req :
        /\ req[r].pc \in {"llm", "done"} /\ req[r].stage = "ranking"
        /\ findCourse(SCHOOL_DB, req[r].seen.lastCourse) # <<>>
        => /\ Cardinality(placesOf(req[r].hits, "ranking"))
                 = Len(rankChosen(SCHOOL_DB, req[r].seen.lastCourse,
                                  rankIntent(toLowerCase(req[r].query)).tags))
           /\ \A i \in placesOf(req[r].hits, "ranking") :
                 \E j \in DOMAIN SCHOOL_DB.rankings[req[r].seen.lastCourse] :
                     LET e == SCHOOL_DB.rankings[req[r].seen.lastCourse][j] IN
                     /\ e.name = req[r].hits[i].data.prof.name
                     /\ req[r].hits[i].score = 100 - 2 * e.rank
           /\ Cardinality(placesOf(req[r].hits, "course")) = 1
           /\ \A i \in placesOf(req[r].hits, "course") :
                 /\ req[r].hits[i].score = 0
                 /\ canonCourse(req[r].hits[i].data.code) = req[r].seen.lastCourse

\* the candidate names the web fallback extracted for the request rec, in
\* the order of lines 682-709, de-duplicated
webUnique(rec) ==
    uniqueByName(webCandidates(schoolName(SCHOOL_DB), rec.web.rmp, rec.web.school), {})

\* C19: when the web fallback extracts at least one candidate name, the
\* list search returns holds a synthetic ranking hit for each of the first
\* (up to 3) de-duplicated candidates, whatever keyword hits were collected
\* before.
C19_WebCandidatesReturned ==
    \A r \in DOMAIN req :
        req[r].pc \in {"llm", "done"} /\ req[r].stage = "webNames" =>
            \A k \in DOMAIN Take(webUnique(req[r]), 3) :
                \E i \in DOMAIN req[r].hits :
                    /\ req[r].hits[i].type = "ranking"
                    /\ req[r].hits[i].data.prof.name = webUnique(req[r])[k].name

\* C20: with two requests in flight the handoff of a request that was
\* suspended on the embedding call reads the session as it is when the
\* request resumes, so a class_full request resumed after the other
\* request's ranking lookup hands off for the other request's course.
C20_HandoffReadsSharedSession ==
    [][\A r \in DOMAIN req :
           /\ req[r].pc = "embed" /\ req'[r].pc = "done"
           /\ req'[r].reply.kind \in {"next", "exhausted"}
           => /\ req'[r].reply.course = SESSION.lastCourse
              /\ \A o \in DOMAIN req \ {r} : req'[o] = req[o]]_vars

\* a class_full request that came in while MATH 1A was the last course and
\* was answered, after its embedding call, with the next professor of CIS 22A
C20_Witness ==
    \E r \in DOMAIN req :
        /\ req[r].pc = "done" /\ req[r].intent = "class_full" /\ req[r].emb # "none"
        /\ req[r].reply.kind = "next"
        /\ req[r].was = "MATH 1A" /\ req[r].reply.course = "CIS 22A"

\* the names the run has shown: in the ranking snippets of its lookup and
\* in its handoff replies
runNames == run.served \cup {run.shown[k].name : k \in DOMAIN run.shown}

\* C21: in a conversation of one ranking lookup for a course followed only
\* by class_full requests, the exhaustion reply is given only after every
\* entry of the ranking list of the course was shown in a ranking hit of the
\* lookup or in a handoff reply.
C21_ExhaustionAfterAll ==
    [][\A r \in DOMAIN req :
           /\ req[r].pc # "done" /\ req'[r].pc = "done"
           /\ req'[r].reply.kind = "exhausted"
           /\ run.lookup /\ run.course = req'[r].reply.course
           => \A i \in DOMAIN rankingsOf(SCHOOL_DB, run.course) :
                  rankingsOf(SCHOOL_DB, run.course)[i].name \in runNames]_vars

\* C22: the ranking stage and the handoff order the ranking list of a course
\* identically, so after a search that returned at the ranking stage the
\* position the handoff finds for lastProfessor is its position in the order
\* the ranking stage served.
C22_SameOrder ==
    \A r \in DOMAIN req :
        searchReturned(r) /\ req[r].stage = "ranking" =>
            /\ rankStageList(SCHOOL_DB, req[r].seen.lastCourse)
                  = handoffList(SCHOOL_DB, req[r].seen.lastCourse)
            /\ findIndexByName(handoffList(SCHOOL_DB, req[r].seen.lastCourse),
                               req[r].seen.lastProfessor)
                  = findIndexByName(rankStageList(SCHOOL_DB, req[r].seen.lastCourse),
                                    req[r].seen.lastProfessor)

====
